---- MODULE Spec2Model ----
(***************************************************************************)
(* Model of the article content extractor of send-to-kindle                *)
(* (packages/article-fetcher/src/fetcher.ts, the linkedom based functions  *)
(* extractContent .. cleanText).                                           *)
(*                                                                         *)
(* Strings are sequences of one-character strings.  Three characters are   *)
(* written with a longer name: "nl" is a line feed, "tab" a tabulator and  *)
(* "nbsp" the no-break space U+00A0.  A start or end tag inside a          *)
(* serialized subtree is one atom ("<p>", "</p>", ...) whose length in     *)
(* characters is given by AtomLen.                                         *)
(*                                                                         *)
(* A document is the tree the document loader hands back: an optional      *)
(* <title>, a list of <meta> elements, an optional <body>, and MaxNodes    *)
(* elements numbered in document order (preorder) with a parent function   *)
(* (0 is the body, or the root when there is no body).                     *)
(***************************************************************************)
EXTENDS Integers, Sequences, FiniteSets, TLC

\* ---------------------------------------------------------------- bounds
MaxNodes == 3

\* ------------------------------------------------------ program constants
MIN_PARAGRAPH_LENGTH == 30

\* the literal 10 of extractTextFromElement (plain-text mode)
MIN_ITEM_LENGTH == 10

UNWANTED_SELECTORS ==
  <<"script", "style", "nav", "header", "footer", "aside", "iframe", "object", "embed">>

UNWANTED_CLASSES ==
  <<"sidebar", "navigation", "menu", "advertisement", "ads", "social", "comments",
    "related", "recommended", "popup", "modal">>

\* a selector is [by |-> "tag" | "role" | "class", v |-> value]
CONTENT_SELECTORS ==
  << [by |-> "tag", v |-> "article"], [by |-> "tag", v |-> "main"],
     [by |-> "role", v |-> "main"], [by |-> "class", v |-> "post"],
     [by |-> "class", v |-> "entry"], [by |-> "class", v |-> "content"],
     [by |-> "class", v |-> "article"], [by |-> "class", v |-> "story"] >>

\* the author selectors with article:author in front of author
AUTHOR_SELECTORS_PropertyFirst ==
  << [attr |-> "property", v |-> "article:author"], [attr |-> "name", v |-> "author"],
     [attr |-> "name", v |-> "twitter:creator"] >>

AUTHOR_SELECTORS ==
  << [attr |-> "name", v |-> "author"], [attr |-> "property", v |-> "article:author"],
     [attr |-> "name", v |-> "twitter:creator"] >>

DATE_SELECTORS ==
  << [attr |-> "property", v |-> "article:published_time"], [attr |-> "name", v |-> "date"],
     [attr |-> "property", v |-> "article:published"], [attr |-> "name", v |-> "pubdate"] >>

\* ------------------------------------------------------- generic helpers
Range(f) == { f[i] : i \in DOMAIN f }

SeqMin(S) == CHOOSE x \in S : \A y \in S : x <= y

\* the elements of the set of integers S in increasing order
RECURSIVE SortedSeq(_)
SortedSeq(S) == IF S = {} THEN <<>> ELSE <<SeqMin(S)>> \o SortedSeq(S \ {SeqMin(S)})

RECURSIVE Flatten(_)
Flatten(ss) == IF ss = <<>> THEN <<>> ELSE Head(ss) \o Flatten(Tail(ss))

Rep(c, n) == [i \in 1..n |-> c]

\* Array.prototype.join(' ')
RECURSIVE JoinSp(_)
JoinSp(ss) ==
  IF ss = <<>> THEN <<>>
  ELSE IF Len(ss) = 1 THEN Head(ss)
  ELSE Head(ss) \o <<" ">> \o JoinSp(Tail(ss))

\* ------------------------------------------------------- JavaScript strings
\* the characters matched by \s and stripped by String.prototype.trim
IsSpace(c) == c \in {" ", "nl", "tab", "nbsp"}

RECURSIVE TrimStart(_)
TrimStart(s) == IF s # <<>> /\ IsSpace(Head(s)) THEN TrimStart(Tail(s)) ELSE s

RECURSIVE TrimEnd(_)
TrimEnd(s) ==
  IF s # <<>> /\ IsSpace(s[Len(s)]) THEN TrimEnd(SubSeq(s, 1, Len(s) - 1)) ELSE s

\* String.prototype.trim
Trim(s) == TrimEnd(TrimStart(s))

\* s.replace(/\s\s/g, ' '): pairs of whitespace characters instead of runs
RECURSIVE CollapsePairs(_)
CollapsePairs(s) ==
  IF s = <<>> THEN <<>>
  ELSE IF Len(s) >= 2 /\ IsSpace(s[1]) /\ IsSpace(s[2])
       THEN <<" ">> \o CollapsePairs(Tail(Tail(s)))
       ELSE <<Head(s)>> \o CollapsePairs(Tail(s))

\* s.replace(/\s+/g, ' ')
RECURSIVE CollapseSpace(_)
CollapseSpace(s) ==
  IF s = <<>> THEN <<>>
  ELSE IF IsSpace(Head(s))
       THEN <<" ">> \o CollapseSpace(TrimStart(s))
       ELSE <<Head(s)>> \o CollapseSpace(Tail(s))

\* length in characters of one atom of a serialized subtree
AtomLen(a) ==
  CASE a = "<article>" -> 9 [] a = "</article>" -> 10
    [] a = "<div>" -> 5 [] a = "</div>" -> 6
    [] a = "<div class=\"content\">" -> 21
    [] a = "<div class=\"sidebar\">" -> 21
    [] a = "<div class=\"sidebarwrapper\">" -> 28
    [] a = "<div class=\"lead sidebar\">" -> 26
    [] a = "<p class=\"antisocial-club\">" -> 27
    [] a = "<p class=\"author\">" -> 18
    [] a = "<nav>" -> 5 [] a = "</nav>" -> 6
    [] a = "<p>" -> 3 [] a = "</p>" -> 4
    [] a = "<h1>" -> 4 [] a = "</h1>" -> 5
    [] a = "<h1 class=\"title\">" -> 18
    [] a = "<h1 class=\"entry-title\">" -> 24
    [] a = "<h2>" -> 4 [] a = "</h2>" -> 5
    [] a = "<li>" -> 4 [] a = "</li>" -> 5
    [] a = "xxxxxxxxxxxxxxxxxxxx" -> 20
    [] OTHER -> 1

\* String.prototype.length
RECURSIVE StrLen(_)
StrLen(s) == IF s = <<>> THEN 0 ELSE AtomLen(Head(s)) + StrLen(Tail(s))

\* ------------------------------------------------ the HTML fragment parser
\* (what `tempElement.innerHTML = text; tempElement.textContent` computes)
StartsWith(s, p) == Len(s) >= Len(p) /\ SubSeq(s, 1, Len(p)) = p

Drop(s, n) == SubSeq(s, n + 1, Len(s))

\* the named character references the parser knows, with the character each yields
ENTITIES ==
  << [name |-> <<"a", "m", "p">>, char |-> "&"],
     [name |-> <<"l", "t">>, char |-> "<"],
     [name |-> <<"g", "t">>, char |-> ">"],
     [name |-> <<"n", "b", "s", "p">>, char |-> "nbsp"] >>

\* index in ENTITIES of the reference s starts with (s begins with "&"), or 0
EntityAt(s) ==
  LET hits == { i \in DOMAIN ENTITIES : StartsWith(Tail(s), ENTITIES[i].name) }
  IN IF hits = {} THEN 0 ELSE SeqMin(hits)

\* a "<" opens a tag when a letter, "/" or "!" follows it
OpensTag(s) ==
  /\ Len(s) >= 2
  /\ s[2] \notin {" ", "nl", "tab", "nbsp", "<", ">", "&", ";"}

\* position of the first ">" of s, or 0
FirstGt(s) ==
  LET hits == { i \in DOMAIN s : s[i] = ">" }
  IN IF hits = {} THEN 0 ELSE SeqMin(hits)

\* the text nodes of the parsed fragment, concatenated: tags contribute
\* nothing, character references are decoded (the trailing ";" is optional
\* for the references listed), an unterminated tag ends the text
RECURSIVE ParsedText(_)
ParsedText(s) ==
  IF s = <<>> THEN <<>>
  ELSE IF Head(s) = "<" /\ OpensTag(s)
       THEN IF FirstGt(s) = 0 THEN <<>> ELSE ParsedText(Drop(s, FirstGt(s)))
  ELSE IF Head(s) = "&" /\ EntityAt(s) # 0
       THEN LET e == ENTITIES[EntityAt(s)]
                rest == Drop(s, 1 + Len(e.name))
            IN <<e.char>> \o ParsedText(IF rest # <<>> /\ Head(rest) = ";"
                                        THEN Tail(rest) ELSE rest)
  ELSE <<Head(s)>> \o ParsedText(Tail(s))

\* cleanText without the pass through the fragment parser (`const decoded = text`)
cleanText_NoDecode(text) == Trim(CollapseSpace(text))

cleanText(text) == Trim(CollapseSpace(ParsedText(text)))

\* the serializer behind innerHTML escapes the text nodes it writes
RECURSIVE EscapeText(_)
EscapeText(s) ==
  IF s = <<>> THEN <<>>
  ELSE (CASE Head(s) = "&" -> <<"&", "a", "m", "p", ";">>
          [] Head(s) = "<" -> <<"&", "l", "t", ";">>
          [] Head(s) = ">" -> <<"&", "g", "t", ";">>
          [] Head(s) = "nbsp" -> <<"&", "n", "b", "s", "p", ";">>
          [] OTHER -> <<Head(s)>>) \o EscapeText(Tail(s))

\* cleaned.replace(/\s*&\s*/, ' '): without the g flag only the first match
\* is replaced
RECURSIVE StripAmpersands_FirstOnly(_)
StripAmpersands_FirstOnly(s) ==
  IF s = <<>> THEN <<>>
  ELSE IF TrimStart(s) # <<>> /\ Head(TrimStart(s)) = "&"
       THEN <<" ">> \o TrimStart(Tail(TrimStart(s)))
       ELSE <<Head(s)>> \o StripAmpersands_FirstOnly(Tail(s))

\* cleaned.replace(/\s*&\s*/g, ' ')
RECURSIVE StripAmpersands(_)
StripAmpersands(s) ==
  IF s = <<>> THEN <<>>
  ELSE IF TrimStart(s) # <<>> /\ Head(TrimStart(s)) = "&"
       THEN <<" ">> \o StripAmpersands(TrimStart(Tail(TrimStart(s))))
       ELSE <<Head(s)>> \o StripAmpersands(Tail(s))

\* cleanContentText of the plain-text extractor
cleanContentText(text) == Trim(CollapseSpace(StripAmpersands(cleanText(text))))

\* ------------------------------------------------------------ the DOM tree
Nodes == 1..MaxNodes

\* the character node n's own text is written with: a text distinct per element
Marker(n) == CASE n = 1 -> "1" [] n = 2 -> "2" [] n = 3 -> "3" [] n = 4 -> "4" [] OTHER -> "5"

\* the element kinds documents are built from: tag, class tokens, role
\* attribute, and the shape of the element's own text (written before its
\* child elements)
KINDS ==
  [ article  |-> [tag |-> "article", classes |-> {}, role |-> "", txt |-> "none"],
    content  |-> [tag |-> "div", classes |-> {"content"}, role |-> "", txt |-> "short"],
    div      |-> [tag |-> "div", classes |-> {}, role |-> "", txt |-> "short"],
    sidebar  |-> [tag |-> "div", classes |-> {"sidebar"}, role |-> "", txt |-> "short"],
    nav      |-> [tag |-> "nav", classes |-> {}, role |-> "", txt |-> "short"],
    p31      |-> [tag |-> "p", classes |-> {}, role |-> "", txt |-> "len31"],
    p30      |-> [tag |-> "p", classes |-> {}, role |-> "", txt |-> "len30"],
    pamp     |-> [tag |-> "p", classes |-> {}, role |-> "", txt |-> "len30amp"],
    h1title  |-> [tag |-> "h1", classes |-> {"title"}, role |-> "", txt |-> "short"],
    h1blank  |-> [tag |-> "h1", classes |-> {}, role |-> "", txt |-> "blank"],
    h1entry  |-> [tag |-> "h1", classes |-> {"entry-title"}, role |-> "", txt |-> "short"],
    byline   |-> [tag |-> "p", classes |-> {"author"}, role |-> "", txt |-> "short"],
    h1titleblank |-> [tag |-> "h1", classes |-> {"title"}, role |-> "", txt |-> "blank"],
    h2       |-> [tag |-> "h2", classes |-> {}, role |-> "", txt |-> "short"],
    wrapper  |-> [tag |-> "div", classes |-> {"sidebarwrapper"}, role |-> "", txt |-> "short"],
    club     |-> [tag |-> "p", classes |-> {"antisocial-club"}, role |-> "", txt |-> "short"],
    multi    |-> [tag |-> "div", classes |-> {"lead", "sidebar"}, role |-> "", txt |-> "short"],
    p11      |-> [tag |-> "p", classes |-> {}, role |-> "", txt |-> "len11"],
    p10      |-> [tag |-> "p", classes |-> {}, role |-> "", txt |-> "len10"],
    pamp11   |-> [tag |-> "p", classes |-> {}, role |-> "", txt |-> "len11amp"],
    li11     |-> [tag |-> "li", classes |-> {}, role |-> "", txt |-> "len11"],
    li10     |-> [tag |-> "li", classes |-> {}, role |-> "", txt |-> "len10"] ]

KindNames == DOMAIN KINDS

HEADING_TAGS == {"h1", "h2", "h3", "h4", "h5", "h6"}

\* the element (tag, classes, role) at node n
El(doc, n) == KINDS[doc.kind[n]]

\* the text node that starts element n
OwnText(doc, n) ==
  LET t == El(doc, n).txt
  IN CASE t = "none" -> <<>>
       [] t = "short" -> <<Marker(n), Marker(n)>>
       [] t = "blank" -> <<" ", "nl">>
       [] t = "len31" -> Rep(Marker(n), MIN_PARAGRAPH_LENGTH + 1)
       [] t = "len30" -> Rep(Marker(n), MIN_PARAGRAPH_LENGTH)
       [] t = "len30amp" -> Rep(Marker(n), MIN_PARAGRAPH_LENGTH - 1) \o <<"&">>
       [] t = "len11" -> Rep(Marker(n), MIN_ITEM_LENGTH + 1)
       [] t = "len10" -> Rep(Marker(n), MIN_ITEM_LENGTH)
       [] t = "len11amp" -> Rep(Marker(n), 4) \o <<" ", "&", " ">> \o Rep(Marker(n), 4)

StartTag(e) ==
  CASE e.tag = "article" -> "<article>"
    [] e.tag = "div" /\ e.classes = {"content"} -> "<div class=\"content\">"
    [] e.tag = "div" /\ e.classes = {"sidebar"} -> "<div class=\"sidebar\">"
    [] e.tag = "div" /\ e.classes = {"sidebarwrapper"} -> "<div class=\"sidebarwrapper\">"
    [] e.tag = "div" /\ e.classes = {"lead", "sidebar"} -> "<div class=\"lead sidebar\">"
    [] e.tag = "div" /\ e.classes = {} -> "<div>"
    [] e.tag = "nav" -> "<nav>"
    [] e.tag = "p" /\ e.classes = {"antisocial-club"} -> "<p class=\"antisocial-club\">"
    [] e.tag = "p" /\ e.classes = {"author"} -> "<p class=\"author\">"
    [] e.tag = "p" /\ e.classes = {} -> "<p>"
    [] e.tag = "h1" /\ e.classes = {"title"} -> "<h1 class=\"title\">"
    [] e.tag = "h1" /\ e.classes = {"entry-title"} -> "<h1 class=\"entry-title\">"
    [] e.tag = "h1" /\ e.classes = {} -> "<h1>"
    [] e.tag = "h2" -> "<h2>"
    [] e.tag = "li" -> "<li>"

EndTag(e) ==
  CASE e.tag = "article" -> "</article>"
    [] e.tag = "div" -> "</div>"
    [] e.tag = "nav" -> "</nav>"
    [] e.tag = "p" -> "</p>"
    [] e.tag = "h1" -> "</h1>"
    [] e.tag = "h2" -> "</h2>"
    [] e.tag = "li" -> "</li>"

\* proper ancestors of n among the elements (the body, 0, is not listed)
RECURSIVE Ancestors(_, _)
Ancestors(doc, n) ==
  IF n = 0 \/ doc.parent[n] = 0 THEN {}
  ELSE {doc.parent[n]} \cup Ancestors(doc, doc.parent[n])

\* n and everything below it
Subtree(doc, n) == {n} \cup { m \in Nodes : n \in Ancestors(doc, m) }

SubtreesOf(doc, S) == UNION { Subtree(doc, n) : n \in S }

\* the child elements of n (0: of the body) still attached, in document order
ChildSeq(doc, rm, n) == SortedSeq({ m \in Nodes \ rm : doc.parent[m] = n })

\* Node.textContent of element n (n = 0: of the body) once the elements rm are detached
RECURSIVE TextContent(_, _, _)
TextContent(doc, rm, n) ==
  LET kids == ChildSeq(doc, rm, n)
  IN (IF n = 0 THEN <<>> ELSE OwnText(doc, n))
       \o Flatten([i \in DOMAIN kids |-> TextContent(doc, rm, kids[i])])

\* Element.innerHTML of element n (n = 0: of the body) once the elements rm are detached
RECURSIVE InnerHTML(_, _, _)
InnerHTML(doc, rm, n) ==
  LET kids == ChildSeq(doc, rm, n)
  IN (IF n = 0 THEN <<>> ELSE EscapeText(OwnText(doc, n)))
       \o Flatten([i \in DOMAIN kids |->
                     <<StartTag(El(doc, kids[i]))>> \o InnerHTML(doc, rm, kids[i])
                       \o <<EndTag(El(doc, kids[i]))>>])

\* ----------------------------------------------------------- CSS selectors
MatchesContentSelector(e, sel) ==
  CASE sel.by = "tag" -> e.tag = sel.v
    [] sel.by = "role" -> e.role = sel.v
    [] sel.by = "class" -> sel.v \in e.classes

\* the class names of the model that contain "title" as a substring
TITLE_SUBSTRING_CLASSES == {"title", "entry-title", "post-title", "article-title"}

\* a title selector is h1.<cls>, or h1[class*="title"] written with cls = "*"
TITLE_SELECTORS == <<"title", "entry-title", "post-title", "article-title", "*">>

MatchesTitleSelector(e, cls) ==
  /\ e.tag = "h1"
  /\ IF cls = "*" THEN e.classes \cap TITLE_SUBSTRING_CLASSES # {} ELSE cls \in e.classes

\* matches `UNWANTED_SELECTORS.join(', ')`
HasUnwantedTag(e) == e.tag \in Range(UNWANTED_SELECTORS)

\* matches one of `.${className}`
HasUnwantedClass(e) == e.classes \cap Range(UNWANTED_CLASSES) # {}

\* document.querySelector over the attached elements: the first in document
\* order among those matching the selector, or 0
QueryFirst(doc, rm, matching) ==
  LET hits == matching \ rm
  IN IF hits = {} THEN 0 ELSE SeqMin(hits)

\* ------------------------------------------------- the extraction functions
\* an optional string: undefined / null is [def |-> FALSE, v |-> <<>>]
Undefined == [def |-> FALSE, v |-> <<>>]

Some(v) == [def |-> TRUE, v |-> v]

\* JavaScript truthiness of an optional string
Truthy(o) == o.def /\ o.v # <<>>

\* Element.getAttribute('content') of a <meta>
MetaContent(m) == IF m.has THEN Some(m.content) ELSE Undefined

\* document.querySelector('meta[attr="v"]'): index of the first such <meta>, or 0
QueryMeta(doc, sel) ==
  LET hits == { i \in DOMAIN doc.metas : doc.metas[i].attr = sel.attr /\ doc.metas[i].v = sel.v }
  IN IF hits = {} THEN 0 ELSE SeqMin(hits)

\* extractMetaContent returning the attribute of the first element found
\* (`return element.getAttribute('content') || undefined`)
RECURSIVE extractMetaContent_FirstElement(_, _)
extractMetaContent_FirstElement(doc, selectors) ==
  IF selectors = <<>> THEN Undefined
  ELSE LET i == QueryMeta(doc, Head(selectors))
       IN IF i # 0
          THEN (IF doc.metas[i].has /\ doc.metas[i].content # <<>>
                THEN Some(doc.metas[i].content) ELSE Undefined)
          ELSE extractMetaContent_FirstElement(doc, Tail(selectors))

RECURSIVE extractMetaContent(_, _)
extractMetaContent(doc, selectors) ==
  IF selectors = <<>> THEN Undefined
  ELSE LET i == QueryMeta(doc, Head(selectors))
           content == IF i # 0 /\ doc.metas[i].has
                      THEN Some(Trim(doc.metas[i].content)) ELSE Undefined
       IN IF content.def /\ Len(content.v) > 0
          THEN content
          ELSE extractMetaContent(doc, Tail(selectors))

\* extractMetadata with a default in place of undefined
\* (`extractMetaContent(document, AUTHOR_SELECTORS) ?? ''`)
extractMetadata_EmptyDefault(doc) ==
  LET OrEmpty(o) == IF o.def THEN o ELSE Some(<<>>)
  IN [author |-> OrEmpty(extractMetaContent(doc, AUTHOR_SELECTORS)),
      publishedDate |-> OrEmpty(extractMetaContent(doc, DATE_SELECTORS))]

extractMetadata(doc) ==
  [author |-> extractMetaContent(doc, AUTHOR_SELECTORS),
   publishedDate |-> extractMetaContent(doc, DATE_SELECTORS)]

IsH1(e) == e.tag = "h1"

\* extractTitle returning as soon as the element exists, blank or not
extractTitle_IfPresent(doc, rm) ==
  LET h1 == QueryFirst(doc, rm, { n \in Nodes : IsH1(El(doc, n)) })
  IN IF doc.title.has THEN cleanText(Trim(doc.title.text))
     ELSE IF h1 # 0 THEN cleanText(Trim(TextContent(doc, rm, h1)))
          ELSE <<>>

extractTitle(doc, rm) ==
  LET h1 == QueryFirst(doc, rm, { n \in Nodes : IsH1(El(doc, n)) })
  IN IF doc.title.has /\ Trim(doc.title.text) # <<>>
     THEN cleanText(Trim(doc.title.text))
     ELSE IF h1 # 0 /\ Trim(TextContent(doc, rm, h1)) # <<>>
          THEN cleanText(Trim(TextContent(doc, rm, h1)))
          ELSE <<>>

\* removeElementsBySelectors with querySelector in place of querySelectorAll:
\* only the first element still attached is detached
removeElementsBySelectors_FirstOnly(doc, rm) ==
  LET first == QueryFirst(doc, rm, { n \in Nodes : HasUnwantedTag(El(doc, n)) })
  IN IF first = 0 THEN rm ELSE rm \cup Subtree(doc, first)

\* the elements removeElementsBySelectors detaches: every element with an
\* unwanted tag, with its subtree
removeElementsBySelectors(doc, rm) ==
  rm \cup SubtreesOf(doc, { n \in Nodes \ rm : HasUnwantedTag(El(doc, n)) })

\* the class names of the model that are no entry of UNWANTED_CLASSES but
\* contain one as a substring
SUBSTRING_CLASSES == {"sidebarwrapper", "antisocial-club"}

\* removeElementsByClasses matching `[class*="${className}"]`: a class
\* attribute that contains the entry anywhere
removeElementsByClasses_Substring(doc, rm) ==
  rm \cup SubtreesOf(doc, { n \in Nodes \ rm :
             \/ HasUnwantedClass(El(doc, n))
             \/ El(doc, n).classes \cap SUBSTRING_CLASSES # {} })

\* removeElementsByClasses detaching the parent of each match
\* (`element.parentElement?.remove()`); the parent of a child of the body is
\* the body
removeElementsByClasses_Parent(doc, rm) ==
  LET hits == { n \in Nodes \ rm : HasUnwantedClass(El(doc, n)) }
  IN IF \E n \in hits : doc.parent[n] = 0 THEN Nodes
     ELSE rm \cup SubtreesOf(doc, { doc.parent[n] : n \in hits })

\* removeElementsByClasses left out
removeElementsByClasses_Skipped(doc, rm) == rm

\* the elements removeElementsByClasses detaches: every element carrying an
\* unwanted class token, with its subtree
removeElementsByClasses(doc, rm) ==
  rm \cup SubtreesOf(doc, { n \in Nodes \ rm : HasUnwantedClass(El(doc, n)) })

\* preserveFormattingInElement returning the text of the element
\* (`return element.textContent.trim()`)
preserveFormattingInElement_TextContent(doc, rm, n) ==
  LET below == IF n = 0 THEN Nodes ELSE Subtree(doc, n) \ {n}
      gone == rm \cup SubtreesOf(doc, { m \in below \ rm :
                         HasUnwantedTag(El(doc, m)) \/ HasUnwantedClass(El(doc, m)) })
  IN [rm |-> gone, html |-> Trim(TextContent(doc, gone, n))]

\* preserveFormattingInElement: detaches the unwanted descendants of the
\* element, then serializes what is left of it.  [rm, html]
preserveFormattingInElement(doc, rm, n) ==
  LET below == IF n = 0 THEN Nodes ELSE Subtree(doc, n) \ {n}
      gone == rm \cup SubtreesOf(doc, { m \in below \ rm :
                         HasUnwantedTag(El(doc, m)) \/ HasUnwantedClass(El(doc, m)) })
  IN [rm |-> gone, html |-> Trim(InnerHTML(doc, gone, n))]

\* findTitleH1BeforeContent without the test of the position bit
\* (`if (titlePosition)`): any title heading other than the container counts
RECURSIVE findTitleH1BeforeContent_AnyPosition(_, _, _, _)
findTitleH1BeforeContent_AnyPosition(doc, rm, contentElement, selectors) ==
  IF selectors = <<>> THEN Undefined
  ELSE LET IsTitle(e) == MatchesTitleSelector(e, Head(selectors))
           titleElement == QueryFirst(doc, rm, { n \in Nodes : IsTitle(El(doc, n)) })
       IN IF titleElement # 0 /\ titleElement # contentElement
          THEN LET t == Trim(TextContent(doc, rm, titleElement))
               IN IF t # <<>> THEN Some(t) ELSE Undefined
          ELSE findTitleH1BeforeContent_AnyPosition(doc, rm, contentElement, Tail(selectors))

\* findTitleH1BeforeContent that stops at the first selector with a match
\* (`return titlePosition & 4 ? text : null`)
findTitleH1BeforeContent_FirstMatchOnly(doc, rm, contentElement, selectors) ==
  LET firsts == [i \in DOMAIN selectors |->
                  QueryFirst(doc, rm, { n \in Nodes : MatchesTitleSelector(El(doc, n), selectors[i]) })]
      hits == { i \in DOMAIN selectors : firsts[i] # 0 }
  IN IF hits = {} THEN Undefined
     ELSE LET titleElement == firsts[SeqMin(hits)]
              t == Trim(TextContent(doc, rm, titleElement))
          IN IF titleElement < contentElement /\ t # <<>> THEN Some(t) ELSE Undefined

\* findTitleH1BeforeContent: text of the title heading to put in front, or null
RECURSIVE findTitleH1BeforeContent(_, _, _, _)
findTitleH1BeforeContent(doc, rm, contentElement, selectors) ==
  IF selectors = <<>> THEN Undefined
  ELSE LET IsTitle(e) == MatchesTitleSelector(e, Head(selectors))
           titleElement == QueryFirst(doc, rm, { n \in Nodes : IsTitle(El(doc, n)) })
       IN IF titleElement # 0 /\ titleElement < contentElement
          THEN LET t == Trim(TextContent(doc, rm, titleElement))
               IN IF t # <<>> THEN Some(t) ELSE Undefined
          ELSE findTitleH1BeforeContent(doc, rm, contentElement, Tail(selectors))

\* findContentBySelectors: [rm, content], content null when no selector matches
RECURSIVE findContentBySelectors(_, _, _)
findContentBySelectors(doc, rm, selectors) ==
  IF selectors = <<>> THEN [rm |-> rm, content |-> Undefined]
  ELSE LET IsContent(e) == MatchesContentSelector(e, Head(selectors))
           element == QueryFirst(doc, rm, { n \in Nodes : IsContent(El(doc, n)) })
       IN IF element # 0
          THEN LET titleH1 == findTitleH1BeforeContent(doc, rm, element, TITLE_SELECTORS)
                   kept == preserveFormattingInElement(doc, rm, element)
               IN [rm |-> kept.rm,
                   content |-> IF Truthy(titleH1)
                               THEN Some(<<"<h1>">> \o titleH1.v \o <<"</h1>">> \o kept.html)
                               ELSE Some(kept.html)]
          ELSE findContentBySelectors(doc, rm, Tail(selectors))

\* extractElementsText over the elements es (a querySelectorAll result, in
\* document order): [rm, texts]
RECURSIVE extractElementsText(_, _, _, _)
extractElementsText(doc, rm, es, minLength) ==
  IF es = <<>> THEN [rm |-> rm, texts |-> <<>>]
  ELSE LET kept == preserveFormattingInElement(doc, rm, Head(es))
           rest == extractElementsText(doc, kept.rm, Tail(es), minLength)
       IN [rm |-> rest.rm,
           texts |-> (IF StrLen(kept.html) > minLength THEN <<kept.html>> ELSE <<>>)
                       \o rest.texts]

\* extractAllTextFromElement serializing the root when there is no body
extractAllTextFromElement_Root(doc, rm) == preserveFormattingInElement(doc, rm, 0)

extractAllTextFromElement(doc, rm) ==
  IF ~doc.hasBody THEN [rm |-> rm, html |-> <<>>]
  ELSE preserveFormattingInElement(doc, rm, 0)

\* extractContentFallback: [rm, content]
extractContentFallback(doc, rm) ==
  LET ps == SortedSeq({ n \in Nodes \ rm : El(doc, n).tag = "p" })
      paragraphs == extractElementsText(doc, rm, ps, MIN_PARAGRAPH_LENGTH)
      hs == SortedSeq({ n \in Nodes \ paragraphs.rm : El(doc, n).tag \in HEADING_TAGS })
      headings == extractElementsText(doc, paragraphs.rm, hs, 0)
      allContent == headings.texts \o paragraphs.texts
      body == extractAllTextFromElement(doc, headings.rm)
  IN IF Len(allContent) > 0
     THEN [rm |-> headings.rm, content |-> JoinSp(allContent)]
     ELSE [rm |-> body.rm, content |-> body.html]

\* ---------------------------------------------- the plain-text extractor
\* the descendants of element n (0: every element), still attached, with tag in tags
Descendants(doc, rm, n, tags) ==
  { m \in (IF n = 0 THEN Nodes ELSE Subtree(doc, n) \ {n}) \ rm : El(doc, m).tag \in tags }

\* Array.from(element.querySelectorAll(..)).map(e => cleanContentText(
\* e.textContent?.trim() || '')).filter(text => text.length > minLength)
CleanedTexts(doc, rm, es, minLength) ==
  LET texts == [i \in DOMAIN es |-> cleanContentText(Trim(TextContent(doc, rm, es[i])))]
      Long(t) == Len(t) > minLength
  IN SelectSeq(texts, Long)

\* extractTextFromElement putting the paragraphs in front
\* (`[...paragraphs, ...headings, ...lists]`)
extractTextFromElement_ParagraphsFirst(doc, rm, n) ==
  LET paragraphs == CleanedTexts(doc, rm, SortedSeq(Descendants(doc, rm, n, {"p"})),
                                 MIN_ITEM_LENGTH)
      headings == CleanedTexts(doc, rm, SortedSeq(Descendants(doc, rm, n, HEADING_TAGS)), 0)
      listItems == CleanedTexts(doc, rm, SortedSeq(Descendants(doc, rm, n, {"li"})),
                                MIN_ITEM_LENGTH)
      allContent == paragraphs \o headings \o listItems
  IN IF Len(allContent) > 0 THEN JoinSp(allContent)
     ELSE cleanContentText(Trim(TextContent(doc, rm, n)))

\* extractTextFromElement of the plain-text extractor
extractTextFromElement(doc, rm, n) ==
  LET paragraphs == CleanedTexts(doc, rm, SortedSeq(Descendants(doc, rm, n, {"p"})),
                                 MIN_ITEM_LENGTH)
      headings == CleanedTexts(doc, rm, SortedSeq(Descendants(doc, rm, n, HEADING_TAGS)), 0)
      listItems == CleanedTexts(doc, rm, SortedSeq(Descendants(doc, rm, n, {"li"})),
                                MIN_ITEM_LENGTH)
      allContent == headings \o paragraphs \o listItems
  IN IF Len(allContent) > 0 THEN JoinSp(allContent)
     ELSE cleanContentText(Trim(TextContent(doc, rm, n)))

\* ------------------------------------------------------------ the inputs
MaxMetas == 2

NoTitle == [has |-> FALSE, text |-> <<>>]

TITLES ==
  { NoTitle,
    [has |-> TRUE, text |-> <<" ", "nl">>],
    [has |-> TRUE, text |-> <<" ", "T", "nl", " ", "&", "U">>] }

\* <meta> elements: the attribute that names them, its value, and the content attribute
METAS ==
  { [attr |-> k.attr, v |-> k.v, has |-> c.has, content |-> c.content] :
      k \in { [attr |-> "name", v |-> "author"],
              [attr |-> "property", v |-> "article:author"],
              [attr |-> "name", v |-> "twitter:creator"] },
      c \in { [has |-> FALSE, content |-> <<>>],
              [has |-> TRUE, content |-> <<" ", "nl">>],
              [has |-> TRUE, content |-> <<" ", "A", " ">>],
              [has |-> TRUE, content |-> <<"B">>] } }
  \cup { [attr |-> "property", v |-> "article:published_time", has |-> TRUE,
          content |-> <<"D">>] }

MetaSeqs == UNION { [1..k -> METAS] : k \in 0..MaxMetas }

\* parent functions that number the elements in document order
IsPreorder(par) ==
  /\ par[1] = 0
  /\ \A n \in Nodes \ {1} :
       par[n] \in {0, n - 1} \cup Ancestors([parent |-> par], n - 1)

\* what the parser's content model rules out: an element inside a <p>, a
\* heading directly inside a heading
WellNested(par, kind) ==
  \A n \in Nodes : par[n] # 0 =>
    /\ KINDS[kind[par[n]]].tag # "p"
    /\ ~(KINDS[kind[par[n]]].tag \in HEADING_TAGS /\ KINDS[kind[n]].tag \in HEADING_TAGS)

Trees(kinds) ==
  { t \in [parent : { par \in [Nodes -> 0..MaxNodes] : IsPreorder(par) },
           kind : [Nodes -> kinds]] : WellNested(t.parent, t.kind) }

MkDoc(t, title, metas, hasBody) ==
  [parent |-> t.parent, kind |-> t.kind, title |-> title, metas |-> metas,
   hasBody |-> hasBody]

PlainTitle == [has |-> TRUE, text |-> <<"T">>]

\* documents that vary in their body
BodyDocs ==
  { MkDoc(t, PlainTitle, <<>>, TRUE) :
      t \in Trees({"article", "content", "div", "sidebar", "nav", "p31", "p30", "pamp",
                   "h1title", "h2"}) }

\* documents that vary in <title>, presence of <body> and headings
HeadDocs ==
  { MkDoc(t, title, <<>>, hasBody) :
      t \in Trees({"h1title", "h1blank", "pamp", "div"}), title \in TITLES,
      hasBody \in BOOLEAN }

\* documents that vary in their <meta> elements
MetaDocs ==
  { MkDoc([parent |-> [n \in Nodes |-> 0], kind |-> [n \in Nodes |-> "h2"]],
          PlainTitle, metas, TRUE) : metas \in MetaSeqs }

\* documents that vary in their title headings around and inside an <article>
TitleDocs ==
  { MkDoc(t, PlainTitle, <<>>, TRUE) :
      t \in Trees({"article", "h1title", "h1entry", "h1titleblank"}) }

\* documents without a <title> whose headings may lie inside a <nav>
NavTitleDocs ==
  { MkDoc(t, NoTitle, metas, TRUE) :
      t \in Trees({"nav", "h1title", "div"}),
      metas \in { <<>>, <<[attr |-> "name", v |-> "author", has |-> TRUE, content |-> <<"B">>]>> } }

\* documents that vary in the class attributes of their elements
ClassDocs == { MkDoc(t, PlainTitle, <<>>, TRUE) : t \in Trees({"wrapper", "club", "multi"}) }

Docs == BodyDocs \cup HeadDocs \cup MetaDocs \cup ClassDocs \cup TitleDocs \cup NavTitleDocs

EmptyDoc == MkDoc([parent |-> [n \in Nodes |-> 0], kind |-> [n \in Nodes |-> "div"]],
                  NoTitle, <<>>, FALSE)

\* String(error) of what the document loader throws
LOADER_ERRORS == {"TypeError: x", "RangeError: y"}

\* the argument of extractContent: a non-string, a blank string, a string the
\* document loader fails on, or the source of a document
Inputs ==
  { [isString |-> FALSE, text |-> <<>>, throws |-> FALSE, loaderError |-> "", doc |-> EmptyDoc] }
  \cup { [isString |-> TRUE, text |-> t, throws |-> FALSE, loaderError |-> "", doc |-> EmptyDoc] :
           t \in { <<>>, <<" ">>, <<"nl", "tab", "nbsp">> } }
  \cup { [isString |-> TRUE, text |-> <<"<", "x">>, throws |-> TRUE, loaderError |-> e,
          doc |-> EmptyDoc] : e \in LOADER_ERRORS }
  \cup { [isString |-> TRUE, text |-> <<"<", "h", "t", "m", "l", ">">>, throws |-> FALSE,
          loaderError |-> "", doc |-> d] : d \in Docs }

\* ------------------------------------------------------------- the state
VARIABLES
  pc,           \* the statement of extractContent about to run
  html,         \* the argument of extractContent
  document,     \* the tree createDocument returned
  hasDocument,  \* whether createDocument has returned a tree
  removed,      \* the elements detached from the tree so far
  title,        \* const title
  metadata,     \* const metadata
  contentOpt,   \* const contentOpt of extractMainContent
  content,      \* const content
  via,          \* the return statement of extractMainContent that produced content
  result,       \* what extractContent returned or threw
  loaderCalls,  \* number of parseHTML calls made so far
  text,         \* the argument of a stand-alone cleanText call
  cleaned,      \* cleanText(text)
  recleaned,    \* cleanText(cleanText(text))
  calls,        \* the extractContent calls in flight: the locals of each
  heap,         \* the document trees built so far; a call holds an index into it
  lists,        \* the module-level selector lists
  element,      \* the argument of a stand-alone extractTextFromElement call
  request,      \* the Request handed to the worker's fetch handler
  body,         \* const body: the validated KindleRequest
  responses,    \* the Responses the fetch handler has returned
  effects,      \* the pipeline steps the handler has started, in order
  sections,     \* the candidate sections handed to selectBestContentSection
  bestSection,  \* the section selectBestContentSection returned
  page,         \* the live document of the tab, with window.location.href
  liveRemoved,  \* the elements detached from the live document
  cloneRemoved, \* the elements detached from clonedDocument
  pageContent,  \* what ContentExtractor.extractPageContent returned
  cachedPageContent, \* PopupManager.cachedPageContent
  handlers,     \* the click handlers of the popup that were started: their locals
  extractions,  \* number of extractContent messages sent to the tab
  sendPageBtnDisabled \* sendPageBtn.disabled

extractVars ==
  <<html, document, hasDocument, removed, title, metadata, contentOpt, content, via,
    result, loaderCalls>>

cleanVars == <<text, cleaned, recleaned>>

callVars == <<calls, heap, lists>>

textVars == <<element>>

workerVars == <<request, body, responses, effects>>

scoreVars == <<sections, bestSection>>

pageVars == <<page, liveRemoved, cloneRemoved, pageContent>>

popupVars == <<cachedPageContent, handlers, extractions, sendPageBtnDisabled>>

\* the state of the packages around the extractor
appVars == <<workerVars, scoreVars, pageVars, popupVars>>

\* the state of the extractor
fetcherVars == <<extractVars, cleanVars, callVars, textVars>>

vars == <<pc, extractVars, cleanVars, callVars, textVars, appVars>>

NoResult ==
  [status |-> "pending", title |-> <<>>, content |-> <<>>, author |-> Undefined,
   publishedDate |-> Undefined, errorName |-> "", error |-> "", errorDetail |-> ""]

NoMetadata == [author |-> Undefined, publishedDate |-> Undefined]

\* a property of a parsed JSON body: absent, or a value of a JSON type
Absent == [type |-> "absent", v |-> <<>>]

NumberValue == [type |-> "number", v |-> <<>>]

StringValue(v) == [type |-> "string", v |-> v]

\* what request.json() resolves to: kind is the JSON type of the body, or
\* "unreadable" when the promise rejects
Json(kind, url, kindleEmail, fromEmail, subject) ==
  [kind |-> kind, url |-> url, kindleEmail |-> kindleEmail, fromEmail |-> fromEmail,
   subject |-> subject]

NoJson == Json("none", Absent, Absent, Absent, Absent)

\* no request has reached the worker
NoRequest == [method |-> "none", json |-> NoJson]

\* the worker is not part of the run
WorkerIdle ==
  /\ request = NoRequest
  /\ body = NoJson
  /\ responses = <<>>
  /\ effects = <<>>

\* selectBestContentSection is not part of the run
ScoreIdle ==
  /\ sections = <<>>
  /\ bestSection = <<>>

NoPageContent == [title |-> <<>>, content |-> <<>>, url |-> "", author |-> Undefined]

\* the browser tab is not part of the run
PageIdle ==
  /\ page = [doc |-> EmptyDoc, url |-> ""]
  /\ liveRemoved = {}
  /\ cloneRemoved = {}
  /\ pageContent = NoPageContent

\* `private cachedPageContent: PageContent | null = null`; a PageContent is
\* written as the number of the extraction that produced it
Null == 0

\* the popup is not part of the run
PopupIdle ==
  /\ cachedPageContent = Null
  /\ handlers = <<>>
  /\ extractions = 0
  /\ sendPageBtnDisabled = FALSE

\* the packages around the extractor are not part of the run
AppIdle == WorkerIdle /\ ScoreIdle /\ PageIdle /\ PopupIdle

\* the five `as const` arrays of the module
SelectorLists ==
  [UNWANTED_SELECTORS |-> UNWANTED_SELECTORS, UNWANTED_CLASSES |-> UNWANTED_CLASSES,
   CONTENT_SELECTORS |-> CONTENT_SELECTORS, AUTHOR_SELECTORS |-> AUTHOR_SELECTORS,
   DATE_SELECTORS |-> DATE_SELECTORS]

Init ==
  /\ pc = "extractContent"
  /\ html \in Inputs
  /\ document = EmptyDoc
  /\ hasDocument = FALSE
  /\ removed = {}
  /\ title = <<>>
  /\ metadata = NoMetadata
  /\ contentOpt = Undefined
  /\ content = <<>>
  /\ via = "none"
  /\ result = NoResult
  /\ loaderCalls = 0
  /\ text = <<>>
  /\ cleaned = <<>>
  /\ recleaned = <<>>
  /\ calls = <<>>
  /\ heap = <<>>
  /\ lists = SelectorLists
  /\ element = 0
  /\ AppIdle

\* the blank test without trim (`if (!validHtml)`)
ValidateHtml_NoTrim ==
  /\ pc = "extractContent"
  /\ IF ~html.isString
     THEN /\ result' = [NoResult EXCEPT !.status = "threw", !.errorName = "Error",
                                        !.error = "Invalid HTML input: must be a string"]
          /\ pc' = "done"
     ELSE IF html.text = <<>>
          THEN /\ result' = [NoResult EXCEPT !.status = "returned"]
               /\ pc' = "done"
          ELSE /\ result' = result
               /\ pc' = "createDocument"
  /\ UNCHANGED <<html, document, hasDocument, removed, title, metadata, contentOpt,
                 content, via, loaderCalls>>
  /\ UNCHANGED <<cleanVars, callVars, textVars, appVars>>

\* extractContent without the typeof test of validateHtml: the argument goes
\* on to the blank test and the document loader whatever its type
ValidateHtml_NoTypeCheck ==
  /\ pc = "extractContent"
  /\ IF html.isString /\ Trim(html.text) = <<>>
     THEN /\ result' = [NoResult EXCEPT !.status = "returned"]
          /\ pc' = "done"
     ELSE /\ result' = result
          /\ pc' = "createDocument"
  /\ UNCHANGED <<html, document, hasDocument, removed, title, metadata, contentOpt,
                 content, via, loaderCalls>>
  /\ UNCHANGED <<cleanVars, callVars, textVars, appVars>>

\* extractContent, up to `const document = createDocument(validHtml)`
ValidateHtml ==
  /\ pc = "extractContent"
  /\ IF ~html.isString
     THEN /\ result' = [NoResult EXCEPT !.status = "threw", !.errorName = "Error",
                                        !.error = "Invalid HTML input: must be a string"]
          /\ pc' = "done"
     ELSE IF Trim(html.text) = <<>>
          THEN /\ result' = [NoResult EXCEPT !.status = "returned"]
               /\ pc' = "done"
          ELSE /\ result' = result
               /\ pc' = "createDocument"
  /\ UNCHANGED <<html, document, hasDocument, removed, title, metadata, contentOpt,
                 content, via, loaderCalls>>
  /\ UNCHANGED <<cleanVars, callVars, textVars, appVars>>

CreateDocument ==
  /\ pc = "createDocument"
  /\ loaderCalls' = loaderCalls + 1
  /\ IF html.throws
     THEN /\ result' = [NoResult EXCEPT !.status = "threw", !.errorName = "Error",
                                        !.error = "Failed to parse HTML: ",
                                        !.errorDetail = html.loaderError]
          /\ pc' = "done"
          /\ UNCHANGED <<document, hasDocument>>
     ELSE /\ document' = html.doc
          /\ hasDocument' = TRUE
          /\ pc' = "extractTitle"
          /\ result' = result
  /\ UNCHANGED <<html, removed, title, metadata, contentOpt, content, via>>
  /\ UNCHANGED <<cleanVars, callVars, textVars, appVars>>

\* cleanText builds a scratch document of its own each time it runs
CleanTextCalls(doc, rm) ==
  LET h1 == QueryFirst(doc, rm, { n \in Nodes : IsH1(El(doc, n)) })
  IN IF \/ doc.title.has /\ Trim(doc.title.text) # <<>>
        \/ h1 # 0 /\ Trim(TextContent(doc, rm, h1)) # <<>>
     THEN 1 ELSE 0

\* extractTitle called after removeUnwantedElements: the title of the pruned tree
ExtractTitle_AfterRemoval ==
  /\ pc = "extractTitle"
  /\ title' = extractTitle(document,
                 removeElementsByClasses(document, removeElementsBySelectors(document, removed)))
  /\ loaderCalls' = loaderCalls + CleanTextCalls(document, removed)
  /\ pc' = "extractMetadata"
  /\ UNCHANGED <<html, document, hasDocument, removed, metadata, contentOpt, content, via,
                 result>>
  /\ UNCHANGED <<cleanVars, callVars, textVars, appVars>>

ExtractTitle ==
  /\ pc = "extractTitle"
  /\ title' = extractTitle(document, removed)
  /\ loaderCalls' = loaderCalls + CleanTextCalls(document, removed)
  /\ pc' = "extractMetadata"
  /\ UNCHANGED <<html, document, hasDocument, removed, metadata, contentOpt, content, via,
                 result>>
  /\ UNCHANGED <<cleanVars, callVars, textVars, appVars>>

ExtractMetadata ==
  /\ pc = "extractMetadata"
  /\ metadata' = extractMetadata(document)
  /\ pc' = "removeElementsBySelectors"
  /\ UNCHANGED <<html, document, hasDocument, removed, title, contentOpt, content, via,
                 result, loaderCalls>>
  /\ UNCHANGED <<cleanVars, callVars, textVars, appVars>>

\* removeUnwantedElements, first call
RemoveElementsBySelectors ==
  /\ pc = "removeElementsBySelectors"
  /\ removed' = removeElementsBySelectors(document, removed)
  /\ pc' = "removeElementsByClasses"
  /\ UNCHANGED <<html, document, hasDocument, title, metadata, contentOpt, content, via,
                 result, loaderCalls>>
  /\ UNCHANGED <<cleanVars, callVars, textVars, appVars>>

\* removeUnwantedElements, second call
RemoveElementsByClasses ==
  /\ pc = "removeElementsByClasses"
  /\ removed' = removeElementsByClasses(document, removed)
  /\ pc' = "findContentBySelectors"
  /\ UNCHANGED <<html, document, hasDocument, title, metadata, contentOpt, content, via,
                 result, loaderCalls>>
  /\ UNCHANGED <<cleanVars, callVars, textVars, appVars>>

FindContentBySelectors ==
  /\ pc = "findContentBySelectors"
  /\ LET found == findContentBySelectors(document, removed, CONTENT_SELECTORS)
     IN /\ contentOpt' = found.content
        /\ removed' = found.rm
  /\ pc' = "ifContentOpt"
  /\ UNCHANGED <<html, document, hasDocument, title, metadata, content, via, result,
                 loaderCalls>>
  /\ UNCHANGED <<cleanVars, callVars, textVars, appVars>>

\* extractMainContent: `if (contentOpt) { return contentOpt; }`
ReturnContentOpt ==
  /\ pc = "ifContentOpt"
  /\ Truthy(contentOpt)
  /\ content' = contentOpt.v
  /\ via' = "selector"
  /\ pc' = "return"
  /\ UNCHANGED <<html, document, hasDocument, removed, title, metadata, contentOpt, result,
                 loaderCalls>>
  /\ UNCHANGED <<cleanVars, callVars, textVars, appVars>>

\* extractMainContent: `return extractContentFallback(document)`
ExtractContentFallback ==
  /\ pc = "ifContentOpt"
  /\ ~Truthy(contentOpt)
  /\ LET fb == extractContentFallback(document, removed)
     IN /\ content' = fb.content
        /\ removed' = fb.rm
  /\ via' = "fallback"
  /\ pc' = "return"
  /\ UNCHANGED <<html, document, hasDocument, title, metadata, contentOpt, result,
                 loaderCalls>>
  /\ UNCHANGED <<cleanVars, callVars, textVars, appVars>>

\* extractContent: the final `return { title, content, author, publishedDate }`
Return ==
  /\ pc = "return"
  /\ result' = [status |-> "returned", title |-> title, content |-> content,
                author |-> metadata.author, publishedDate |-> metadata.publishedDate,
                errorName |-> "", error |-> "", errorDetail |-> ""]
  /\ pc' = "done"
  /\ UNCHANGED <<html, document, hasDocument, removed, title, metadata, contentOpt, content,
                 via, loaderCalls>>
  /\ UNCHANGED <<cleanVars, callVars, textVars, appVars>>

Next ==
  \/ ValidateHtml
  \/ CreateDocument
  \/ ExtractTitle
  \/ ExtractMetadata
  \/ RemoveElementsBySelectors
  \/ RemoveElementsByClasses
  \/ FindContentBySelectors
  \/ ReturnContentOpt
  \/ ExtractContentFallback
  \/ Return

Spec == Init /\ [][Next]_vars

\* ------------------------------------------- cleanText called on its own
MaxPieces == 3

\* the fragments the arguments of cleanText are put together from
PIECES ==
  { <<"&", "a", "m", "p", ";">>, <<"&", "l", "t", ";">>, <<"&", "n", "b", "s", "p", ";">>,
    <<"l", "t", ";">>, <<"a", "m", "p", ";">>, <<"&">>, <<"<", "b", ">">>, <<"<">>, <<">">>,
    <<"x">>, <<" ">>, <<"nl">>, <<"tab", " ", "nl">> }

Texts == { Flatten(ps) : ps \in UNION { [1..k -> PIECES] : k \in 0..MaxPieces } }

InitClean ==
  /\ pc = "cleanText"
  /\ text \in Texts
  /\ cleaned = <<>>
  /\ recleaned = <<>>
  /\ html = [isString |-> TRUE, text |-> <<>>, throws |-> FALSE, loaderError |-> "", doc |-> EmptyDoc]
  /\ document = EmptyDoc
  /\ hasDocument = FALSE
  /\ removed = {}
  /\ title = <<>>
  /\ metadata = NoMetadata
  /\ contentOpt = Undefined
  /\ content = <<>>
  /\ via = "none"
  /\ result = NoResult
  /\ loaderCalls = 0
  /\ calls = <<>>
  /\ heap = <<>>
  /\ lists = SelectorLists
  /\ element = 0
  /\ AppIdle

\* cleanText(text)
CleanText ==
  /\ pc = "cleanText"
  /\ cleaned' = cleanText(text)
  /\ pc' = "cleanTextAgain"
  /\ UNCHANGED <<text, recleaned>>
  /\ UNCHANGED <<extractVars, callVars, textVars, appVars>>

\* cleanText applied to its own result
CleanTextAgain ==
  /\ pc = "cleanTextAgain"
  /\ recleaned' = cleanText(cleaned)
  /\ pc' = "cleanTextDone"
  /\ UNCHANGED <<text, cleaned>>
  /\ UNCHANGED <<extractVars, callVars, textVars, appVars>>

\* cleanContentText(text) of the plain-text extractor
CleanContentText ==
  /\ pc = "cleanTextDone"
  /\ content' = cleanContentText(text)
  /\ pc' = "cleanContentTextDone"
  /\ UNCHANGED <<html, document, hasDocument, removed, title, metadata, contentOpt, via,
                 result, loaderCalls>>
  /\ UNCHANGED <<cleanVars, callVars, textVars, appVars>>

NextClean == CleanText \/ CleanTextAgain \/ CleanContentText

SpecClean == InitClean /\ [][NextClean]_vars

\* ------------------------------------- several extractContent calls at once
\* Calls made from a worker pool: each call runs the statements of
\* extractContent in order, and the statements of different calls interleave.
\* A document tree is an object on the heap; a call refers to its tree by
\* index.
MaxCalls == 2

CallIds == 1..MaxCalls

\* <nav><h1 class="title">..</h1></nav><p>..</p>, no <title>
NavDoc ==
  MkDoc([parent |-> [n \in Nodes |-> IF n = 2 THEN 1 ELSE 0],
         kind |-> [n \in Nodes |-> IF n = 1 THEN "nav" ELSE IF n = 2 THEN "h1title"
                                   ELSE IF n = 3 THEN "p31" ELSE "div"]],
        NoTitle, <<>>, TRUE)

\* <article><div class="sidebar">..</div><p>..</p></article> with an author
ArticleDoc ==
  MkDoc([parent |-> [n \in Nodes |-> IF n \in {2, 3} THEN 1 ELSE 0],
         kind |-> [n \in Nodes |-> IF n = 1 THEN "article" ELSE IF n = 2 THEN "sidebar"
                                   ELSE IF n = 3 THEN "p31" ELSE "div"]],
        PlainTitle,
        << [attr |-> "name", v |-> "author", has |-> TRUE, content |-> <<"B">>] >>, TRUE)

\* the arguments of the concurrent calls
CallInputs ==
  { [isString |-> FALSE, text |-> <<>>, throws |-> FALSE, loaderError |-> "", doc |-> EmptyDoc],
    [isString |-> TRUE, text |-> <<" ">>, throws |-> FALSE, loaderError |-> "", doc |-> EmptyDoc],
    [isString |-> TRUE, text |-> <<"<", "x">>, throws |-> TRUE, loaderError |-> "TypeError: x",
     doc |-> EmptyDoc],
    [isString |-> TRUE, text |-> <<"<", "n", "a", "v", ">">>, throws |-> FALSE,
     loaderError |-> "", doc |-> NavDoc],
    [isString |-> TRUE, text |-> <<"<", "a", "r", "t", "i", "c", "l", "e", ">">>,
     throws |-> FALSE, loaderError |-> "", doc |-> ArticleDoc] }

\* the locals of a call that has not run a statement yet
NewCall(h) ==
  [pc |-> "extractContent", html |-> h, document |-> 0, title |-> <<>>,
   metadata |-> NoMetadata, contentOpt |-> Undefined, content |-> <<>>, via |-> "none",
   result |-> NoResult]

InitCalls ==
  /\ calls \in [CallIds -> { NewCall(h) : h \in CallInputs }]
  /\ heap = <<>>
  /\ lists = SelectorLists
  /\ element = 0
  /\ pc = "calls"
  /\ html = [isString |-> TRUE, text |-> <<>>, throws |-> FALSE, loaderError |-> "",
             doc |-> EmptyDoc]
  /\ document = EmptyDoc
  /\ hasDocument = FALSE
  /\ removed = {}
  /\ title = <<>>
  /\ metadata = NoMetadata
  /\ contentOpt = Undefined
  /\ content = <<>>
  /\ via = "none"
  /\ result = NoResult
  /\ loaderCalls = 0
  /\ text = <<>>
  /\ cleaned = <<>>
  /\ recleaned = <<>>
  /\ AppIdle

\* what a step of a call leaves alone
CallFrame == UNCHANGED <<pc, extractVars, cleanVars, lists, textVars, appVars>>

\* call i: validateHtml and the blank test
CallValidateHtml(i) ==
  LET c == calls[i]
  IN /\ c.pc = "extractContent"
     /\ calls' = [calls EXCEPT ![i] =
          IF ~c.html.isString
          THEN [c EXCEPT !.pc = "done",
                         !.result = [NoResult EXCEPT !.status = "threw", !.errorName = "Error",
                                       !.error = "Invalid HTML input: must be a string"]]
          ELSE IF Trim(c.html.text) = <<>>
               THEN [c EXCEPT !.pc = "done", !.result = [NoResult EXCEPT !.status = "returned"]]
               ELSE [c EXCEPT !.pc = "createDocument"]]
     /\ UNCHANGED heap
     /\ CallFrame

\* createDocument handing out one cached tree
\* (`cachedDocument ??= parseHTML(html).document` at module level)
CallCreateDocument_Cached(i) ==
  LET c == calls[i]
  IN /\ c.pc = "createDocument"
     /\ IF c.html.throws
        THEN /\ calls' = [calls EXCEPT ![i] =
                  [c EXCEPT !.pc = "done",
                            !.result = [NoResult EXCEPT !.status = "threw",
                                          !.errorName = "Error",
                                          !.error = "Failed to parse HTML: ",
                                          !.errorDetail = c.html.loaderError]]]
             /\ UNCHANGED heap
        ELSE /\ heap' = IF heap = <<>> THEN <<[doc |-> c.html.doc, removed |-> {}]>> ELSE heap
             /\ calls' = [calls EXCEPT ![i] = [c EXCEPT !.pc = "extractTitle", !.document = 1]]
     /\ CallFrame

\* call i: createDocument; parseHTML builds a new tree for every call
CallCreateDocument(i) ==
  LET c == calls[i]
  IN /\ c.pc = "createDocument"
     /\ IF c.html.throws
        THEN /\ calls' = [calls EXCEPT ![i] =
                  [c EXCEPT !.pc = "done",
                            !.result = [NoResult EXCEPT !.status = "threw",
                                          !.errorName = "Error",
                                          !.error = "Failed to parse HTML: ",
                                          !.errorDetail = c.html.loaderError]]]
             /\ UNCHANGED heap
        ELSE /\ heap' = Append(heap, [doc |-> c.html.doc, removed |-> {}])
             /\ calls' = [calls EXCEPT ![i] =
                  [c EXCEPT !.pc = "extractTitle", !.document = Len(heap) + 1]]
     /\ CallFrame

CallExtractTitle(i) ==
  LET c == calls[i]
      tree == heap[c.document]
  IN /\ c.pc = "extractTitle"
     /\ calls' = [calls EXCEPT ![i] =
          [c EXCEPT !.pc = "extractMetadata", !.title = extractTitle(tree.doc, tree.removed)]]
     /\ UNCHANGED heap
     /\ CallFrame

CallExtractMetadata(i) ==
  LET c == calls[i]
      tree == heap[c.document]
  IN /\ c.pc = "extractMetadata"
     /\ calls' = [calls EXCEPT ![i] =
          [c EXCEPT !.pc = "removeUnwantedElements", !.metadata = extractMetadata(tree.doc)]]
     /\ UNCHANGED heap
     /\ CallFrame

\* call i: removeUnwantedElements(document)
CallRemoveUnwantedElements(i) ==
  LET c == calls[i]
      tree == heap[c.document]
  IN /\ c.pc = "removeUnwantedElements"
     /\ heap' = [heap EXCEPT ![c.document].removed =
          removeElementsByClasses(tree.doc, removeElementsBySelectors(tree.doc, tree.removed))]
     /\ calls' = [calls EXCEPT ![i] = [c EXCEPT !.pc = "findContentBySelectors"]]
     /\ CallFrame

CallFindContentBySelectors(i) ==
  LET c == calls[i]
      tree == heap[c.document]
      found == findContentBySelectors(tree.doc, tree.removed, CONTENT_SELECTORS)
  IN /\ c.pc = "findContentBySelectors"
     /\ heap' = [heap EXCEPT ![c.document].removed = found.rm]
     /\ calls' = [calls EXCEPT ![i] =
          [c EXCEPT !.pc = "ifContentOpt", !.contentOpt = found.content]]
     /\ CallFrame

CallReturnContentOpt(i) ==
  LET c == calls[i]
  IN /\ c.pc = "ifContentOpt"
     /\ Truthy(c.contentOpt)
     /\ calls' = [calls EXCEPT ![i] =
          [c EXCEPT !.pc = "return", !.content = c.contentOpt.v, !.via = "selector"]]
     /\ UNCHANGED heap
     /\ CallFrame

CallExtractContentFallback(i) ==
  LET c == calls[i]
      tree == heap[c.document]
      fb == extractContentFallback(tree.doc, tree.removed)
  IN /\ c.pc = "ifContentOpt"
     /\ ~Truthy(c.contentOpt)
     /\ heap' = [heap EXCEPT ![c.document].removed = fb.rm]
     /\ calls' = [calls EXCEPT ![i] =
          [c EXCEPT !.pc = "return", !.content = fb.content, !.via = "fallback"]]
     /\ CallFrame

CallReturn(i) ==
  LET c == calls[i]
  IN /\ c.pc = "return"
     /\ calls' = [calls EXCEPT ![i] =
          [c EXCEPT !.pc = "done",
                    !.result = [status |-> "returned", title |-> c.title,
                                content |-> c.content, author |-> c.metadata.author,
                                publishedDate |-> c.metadata.publishedDate,
                                errorName |-> "", error |-> "", errorDetail |-> ""]]]
     /\ UNCHANGED heap
     /\ CallFrame

NextCalls ==
  \E i \in CallIds :
    \/ CallValidateHtml(i)
    \/ CallCreateDocument(i)
    \/ CallExtractTitle(i)
    \/ CallExtractMetadata(i)
    \/ CallRemoveUnwantedElements(i)
    \/ CallFindContentBySelectors(i)
    \/ CallReturnContentOpt(i)
    \/ CallExtractContentFallback(i)
    \/ CallReturn(i)

SpecCalls == InitCalls /\ [][NextCalls]_vars

\* --------------------------- extractTextFromElement called on its own
\* fragments that vary in headings, paragraphs and list items
TextDocs ==
  { MkDoc(t, NoTitle, <<>>, TRUE) :
      t \in Trees({"h2", "h1blank", "p11", "p10", "pamp11", "li11", "li10"}) }

InitText ==
  /\ pc = "extractTextFromElement"
  /\ document \in TextDocs
  /\ element \in {0, 1}
  /\ hasDocument = TRUE
  /\ removed = {}
  /\ content = <<>>
  /\ html = [isString |-> TRUE, text |-> <<>>, throws |-> FALSE, loaderError |-> "",
             doc |-> EmptyDoc]
  /\ title = <<>>
  /\ metadata = NoMetadata
  /\ contentOpt = Undefined
  /\ via = "none"
  /\ result = NoResult
  /\ loaderCalls = 0
  /\ text = <<>>
  /\ cleaned = <<>>
  /\ recleaned = <<>>
  /\ calls = <<>>
  /\ heap = <<>>
  /\ lists = SelectorLists
  /\ AppIdle

\* extractTextFromElement(element)
ExtractTextFromElement ==
  /\ pc = "extractTextFromElement"
  /\ content' = extractTextFromElement(document, removed, element)
  /\ pc' = "extractTextFromElementDone"
  /\ UNCHANGED <<html, document, hasDocument, removed, title, metadata, contentOpt, via,
                 result, loaderCalls>>
  /\ UNCHANGED <<cleanVars, callVars, textVars, appVars>>

NextText == ExtractTextFromElement

SpecText == InitText /\ [][NextText]_vars

\* ------------------------------------------ the url-to-kindle worker
\* the extractor is not part of the run
FetcherIdle ==
  /\ html = [isString |-> TRUE, text |-> <<>>, throws |-> FALSE, loaderError |-> "",
             doc |-> EmptyDoc]
  /\ document = EmptyDoc
  /\ hasDocument = FALSE
  /\ removed = {}
  /\ title = <<>>
  /\ metadata = NoMetadata
  /\ contentOpt = Undefined
  /\ content = <<>>
  /\ via = "none"
  /\ result = NoResult
  /\ loaderCalls = 0
  /\ text = <<>>
  /\ cleaned = <<>>
  /\ recleaned = <<>>
  /\ calls = <<>>
  /\ heap = <<>>
  /\ lists = SelectorLists
  /\ element = 0

MaxUrlLen == 3

MaxEmailLen == 5

\* the characters a scheme may go on with ("h" and "x" stand for the letters)
SCHEME_CHARS == {"h", "x"}

\* new URL(u) without a base: it returns when u starts with a scheme (a letter,
\* then scheme characters, then ":") and throws otherwise.  With at most four
\* characters out of h x : / what follows the scheme never makes the parser fail.
UrlParses(u) ==
  \E i \in 2..Len(u) :
    /\ u[i] = ":"
    /\ \A k \in 1..(i - 1) : u[k] \in SCHEME_CHARS

\* /^[^\s@]+@[^\s@]+\.[^\s@]+$/.test(e)
emailRegex(e) ==
  \E i \in 2..Len(e) : \E j \in (i + 2)..(Len(e) - 1) :
    /\ e[i] = "@"
    /\ e[j] = "."
    /\ \A k \in (1..Len(e)) \ {i} : e[k] \notin {" ", "@"}

hasProperty(obj, key) == obj[key].type # "absent"

isKindleRequest(obj) ==
  /\ obj.kind \in {"object", "array"}
  /\ hasProperty(obj, "url")
  /\ hasProperty(obj, "kindleEmail")
  /\ obj.url.type = "string"
  /\ obj.kindleEmail.type = "string"
  /\ obj.fromEmail.type \in {"string", "absent"}
  /\ obj.subject.type \in {"string", "absent"}

\* validateKindleRequest with the two format checks in the other order
validateKindleRequest_EmailFirst(obj) ==
  IF obj.kind \notin {"object", "array"} THEN "Invalid request format"
  ELSE IF ~hasProperty(obj, "url") \/ ~hasProperty(obj, "kindleEmail")
  THEN "Missing required fields: url, kindleEmail"
  ELSE IF ~isKindleRequest(obj) THEN "Invalid request format"
  ELSE IF ~emailRegex(obj.kindleEmail.v) THEN "Invalid email format"
  ELSE IF ~UrlParses(obj.url.v) THEN "Invalid URL format"
  ELSE ""

\* validateKindleRequest(obj): the message of the ValidationError it throws, or
\* "" when it returns obj
validateKindleRequest(obj) ==
  IF obj.kind \notin {"object", "array"} THEN "Invalid request format"
  ELSE IF ~hasProperty(obj, "url") \/ ~hasProperty(obj, "kindleEmail")
  THEN "Missing required fields: url, kindleEmail"
  ELSE IF ~isKindleRequest(obj) THEN "Invalid request format"
  ELSE IF ~UrlParses(obj.url.v) THEN "Invalid URL format"
  ELSE IF ~emailRegex(obj.kindleEmail.v) THEN "Invalid email format"
  ELSE ""

\* the strings the url property is drawn from
Urls == UNION { [1..k -> {"h", "x", ":", "/"}] : k \in 0..MaxUrlLen }

\* the strings the kindleEmail property is drawn from
Emails == UNION { [1..k -> {"a", "@", ".", " "}] : k \in 0..MaxEmailLen }

\* the two optional properties
Optionals ==
  { <<Absent, Absent>>, <<StringValue(<<"a">>), StringValue(<<"a">>)>>,
    <<NumberValue, Absent>>, <<Absent, NumberValue>> }

\* the bodies request.json() resolves to, and the one it rejects with
Bodies ==
  { Json(k, Absent, Absent, Absent, Absent) : k \in {"unreadable", "string", "null", "array"} }
    \cup
  { Json("object", u, e, o[1], o[2]) :
      u \in {Absent, NumberValue} \cup { StringValue(v) : v \in Urls },
      e \in {Absent, NumberValue, StringValue(<<"a">>), StringValue(<<"a", "@", "a", ".", "a">>)},
      o \in Optionals }
    \cup
  { Json("object", StringValue(u), StringValue(e), Absent, Absent) :
      u \in {<<"h", ":">>, <<"x">>}, e \in Emails }

Requests == [method : {"GET", "POST"}, json : Bodies]

Response(status, error) == [status |-> status, error |-> error]

InitWorker ==
  /\ pc = "fetch"
  /\ request \in Requests
  /\ body = NoJson
  /\ responses = <<>>
  /\ effects = <<>>
  /\ FetcherIdle
  /\ ScoreIdle
  /\ PageIdle
  /\ PopupIdle

\* what a step of the worker leaves alone
WorkerFrame == UNCHANGED <<fetcherVars, scoreVars, pageVars, popupVars>>

\* the catch block of fetch for an error that is no ValidationError
InternalServerError ==
  /\ responses' = Append(responses, Response(500, "Internal server error"))
  /\ pc' = "responded"

\* if (request.method !== 'POST')
CheckMethod ==
  /\ pc = "fetch"
  /\ IF request.method # "POST"
     THEN /\ responses' = Append(responses, Response(405, "Method not allowed"))
          /\ pc' = "responded"
     ELSE /\ responses' = responses
          /\ pc' = "request.json"
  /\ UNCHANGED <<request, body, effects>>
  /\ WorkerFrame

\* request.json() whose rejection is answered like a validation failure
ReadBody_BadRequest ==
  /\ pc = "request.json"
  /\ effects' = Append(effects, "json")
  /\ IF request.json.kind = "unreadable"
     THEN /\ responses' = Append(responses, Response(400, "Invalid request format"))
          /\ pc' = "responded"
     ELSE /\ responses' = responses
          /\ pc' = "validateKindleRequest"
  /\ UNCHANGED <<request, body>>
  /\ WorkerFrame

\* const rawBody = await request.json()
ReadBody ==
  /\ pc = "request.json"
  /\ effects' = Append(effects, "json")
  /\ IF request.json.kind = "unreadable"
     THEN InternalServerError
     ELSE /\ responses' = responses
          /\ pc' = "validateKindleRequest"
  /\ UNCHANGED <<request, body>>
  /\ WorkerFrame

\* const body = validateKindleRequest(rawBody), and the catch block for a
\* ValidationError
ValidateKindleRequest ==
  /\ pc = "validateKindleRequest"
  /\ LET message == validateKindleRequest(request.json)
     IN IF message # ""
        THEN /\ responses' = Append(responses, Response(400, message))
             /\ pc' = "responded"
             /\ body' = body
        ELSE /\ responses' = responses
             /\ pc' = "provide"
             /\ body' = request.json
  /\ UNCHANGED <<request, effects>>
  /\ WorkerFrame

\* Effect.runPromise(program) builds EmailSenderLive first: Config.string and
\* new Resend(apiKey), which throws for a missing key
ProvideEmailSender ==
  /\ pc = "provide"
  /\ \E built \in BOOLEAN :
       IF built
       THEN /\ responses' = responses
            /\ pc' = "fetchAndExtractArticle"
       ELSE InternalServerError
  /\ UNCHANGED <<request, body, effects>>
  /\ WorkerFrame

\* const article = yield* Effect.promise(() => fetchAndExtractArticle(request.url))
FetchAndExtractArticle ==
  /\ pc = "fetchAndExtractArticle"
  /\ effects' = Append(effects, "fetchAndExtractArticle")
  /\ \E resolved \in BOOLEAN :
       IF resolved
       THEN /\ responses' = responses
            /\ pc' = "convertToEpub"
       ELSE InternalServerError
  /\ UNCHANGED <<request, body>>
  /\ WorkerFrame

\* const epubBuffer = yield* convertToEpub(article.content, ...)
ConvertToEpub ==
  /\ pc = "convertToEpub"
  /\ effects' = Append(effects, "convertToEpub")
  /\ \E succeeded \in BOOLEAN :
       IF succeeded
       THEN /\ responses' = responses
            /\ pc' = "send"
       ELSE InternalServerError
  /\ UNCHANGED <<request, body>>
  /\ WorkerFrame

\* emailSender.send that calls the Resend API a second time after an error
Send_Retry ==
  /\ pc = "send"
  /\ \E succeeded \in BOOLEAN :
       IF succeeded
       THEN /\ effects' = effects \o <<"send", "sent">>
            /\ responses' = responses
            /\ pc' = "return"
       ELSE /\ effects' = Append(effects, "send")
            /\ IF "send" \in Range(effects)
               THEN InternalServerError
               ELSE /\ responses' = responses
                    /\ pc' = "send"
  /\ UNCHANGED <<request, body>>
  /\ WorkerFrame

\* yield* emailSender.send(emailMessage): "send" is the call of the Resend API,
\* "sent" its answer without an error
Send ==
  /\ pc = "send"
  /\ \E succeeded \in BOOLEAN :
       IF succeeded
       THEN /\ effects' = effects \o <<"send", "sent">>
            /\ responses' = responses
            /\ pc' = "return"
       ELSE /\ effects' = Append(effects, "send")
            /\ InternalServerError
  /\ UNCHANGED <<request, body>>
  /\ WorkerFrame

\* return new Response(JSON.stringify(result), { status: 200 })
ReturnResult ==
  /\ pc = "return"
  /\ responses' = Append(responses, Response(200, ""))
  /\ pc' = "responded"
  /\ UNCHANGED <<request, body, effects>>
  /\ WorkerFrame

NextWorker ==
  \/ CheckMethod
  \/ ReadBody
  \/ ValidateKindleRequest
  \/ ProvideEmailSender
  \/ FetchAndExtractArticle
  \/ ConvertToEpub
  \/ Send
  \/ ReturnResult

SpecWorker == InitWorker /\ [][NextWorker]_vars

\* ------------------------- the scored Content Locator (the regex variant)
MaxSectionLen == 3

MaxSections == 2

\* a word of twenty characters, written as one atom
LongWord == "xxxxxxxxxxxxxxxxxxxx"

\* the tags a section of the model is written with
SECTION_TAGS == {"<p>", "</p>", "<h2>", "</h2>"}

\* s.replace(/&[^;]+;/g, ' ')
RECURSIVE StripEntities(_)
StripEntities(s) ==
  IF s = <<>> THEN <<>>
  ELSE LET ends == { j \in 3..Len(s) : s[j] = ";" }
       IN IF Head(s) = "&" /\ s[2] # ";" /\ ends # {}
          THEN <<" ">> \o StripEntities(SubSeq(s, SeqMin(ends) + 1, Len(s)))
          ELSE <<Head(s)>> \o StripEntities(Tail(s))

\* cleanText of the regex variant: tags and entities become a space, white
\* space is collapsed and trimmed
regexCleanText(s) ==
  Trim(CollapseSpace(StripEntities(
    [i \in DOMAIN s |-> IF s[i] \in SECTION_TAGS THEN " " ELSE s[i]])))

\* (text.match(re) || []).length for a pattern that matches single atoms
Count(s, atoms) == Cardinality({ i \in DOMAIN s : s[i] \in atoms })

\* text.split('.')
RECURSIVE Split(_, _)
Split(s, cur) ==
  IF s = <<>> THEN <<cur>>
  ELSE IF Head(s) = "." THEN <<cur>> \o Split(Tail(s), <<>>)
       ELSE Split(Tail(s), Append(cur, Head(s)))

\* scoreSectionContent, in tenths (0.1 per character, 5 per '.', 10 per <p>,
\* 5 per heading, minus 2 per piece between dots shorter than 20); the tags
\* are counted on text, the section after cleanText
scoreSectionContent(section) ==
  LET cleanedText == regexCleanText(section)
      pieces == Split(cleanedText, <<>>)
      shortSentences == Cardinality({ i \in DOMAIN pieces : StrLen(Trim(pieces[i])) < 20 })
  IN StrLen(cleanedText)
       + 50 * Count(cleanedText, {"."})
       + 100 * Count(cleanedText, {"<p>"})
       + 50 * Count(cleanedText, {"<h2>"})
       - 20 * shortSentences

\* selectBestContentSection: the stable sort by descending score puts the first
\* section of maximal score in front; an empty string there gives way to sections[0]
selectBestContentSection(secs) ==
  LET best == SeqMin({ i \in DOMAIN secs : \A j \in DOMAIN secs :
                         scoreSectionContent(secs[j]) <= scoreSectionContent(secs[i]) })
  IN IF secs[best] # <<>> THEN secs[best] ELSE secs[1]

\* the sections findContentSections may hand over
Sections ==
  UNION { [1..k -> {"<p>", "<h2>", "x", LongWord, ".", " "}] : k \in 0..MaxSectionLen }

InitScore ==
  /\ pc = "selectBestContentSection"
  /\ sections \in UNION { [1..k -> Sections] : k \in 1..MaxSections }
  /\ bestSection = <<>>
  /\ FetcherIdle
  /\ WorkerIdle
  /\ PageIdle
  /\ PopupIdle

\* const bestSection = this.selectBestContentSection(contentSections)
SelectBestContentSection ==
  /\ pc = "selectBestContentSection"
  /\ bestSection' = selectBestContentSection(sections)
  /\ pc' = "selectBestContentSectionDone"
  /\ UNCHANGED <<sections, fetcherVars, workerVars, pageVars, popupVars>>

NextScore == SelectBestContentSection

SpecScore == InitScore /\ [][NextScore]_vars

\* ------------------------------ the content script of the browser extension
\* a selector of the content script: a tag, a class, a role, an id, an
\* attribute, or a substring of the class attribute
Sel(by, v) == [by |-> by, v |-> v]

ELEMENTS_TO_REMOVE ==
  <<Sel("tag", "script"), Sel("tag", "style"), Sel("tag", "nav"), Sel("tag", "header"),
    Sel("tag", "footer"), Sel("tag", "aside"), Sel("class", "ad"),
    Sel("class", "advertisement"), Sel("class", "sidebar"), Sel("class", "navigation"),
    Sel("class", "menu"), Sel("class", "social"), Sel("class", "share")>>

PAGE_CONTENT_SELECTORS ==
  <<Sel("tag", "article"), Sel("tag", "main"), Sel("role", "main"), Sel("class", "content"),
    Sel("class", "post-content"), Sel("class", "entry-content"),
    Sel("class", "article-content"), Sel("id", "content"), Sel("id", "main-content")>>

UNWANTED_BODY_SELECTORS ==
  <<Sel("tag", "header"), Sel("tag", "nav"), Sel("tag", "footer"), Sel("tag", "aside"),
    Sel("class", "sidebar"), Sel("class", "navigation"), Sel("class", "menu"),
    Sel("class", "social-share"), Sel("class", "comments")>>

PAGE_AUTHOR_SELECTORS ==
  <<Sel("attr", "rel=author"), Sel("class", "author"), Sel("class", "byline"),
    Sel("classSubstring", "author"), Sel("attr", "itemprop=author")>>

\* the class names of the model that contain "author" as a substring
AUTHOR_SUBSTRING_CLASSES == {"author"}

\* Element.matches(selector); the elements of the model carry no id and no rel
\* or itemprop attribute
MatchesSelector(e, sel) ==
  CASE sel.by = "tag" -> e.tag = sel.v
    [] sel.by = "class" -> sel.v \in e.classes
    [] sel.by = "role" -> e.role = sel.v
    [] sel.by = "classSubstring" -> e.classes \cap AUTHOR_SUBSTRING_CLASSES # {}
    [] OTHER -> FALSE

\* removeElements(doc, selectors) on a tree with the elements rm detached
removeElements(doc, rm, selectors) ==
  rm \cup SubtreesOf(doc, { n \in Nodes \ rm :
                             \E i \in DOMAIN selectors : MatchesSelector(El(doc, n), selectors[i]) })

\* findMainContent: [rm, element], element 0 being the body
RECURSIVE findMainContent(_, _, _)
findMainContent(doc, rm, selectors) ==
  IF selectors = <<>>
  THEN [rm |-> removeElements(doc, rm, UNWANTED_BODY_SELECTORS), element |-> 0]
  ELSE LET found == QueryFirst(doc, rm, { n \in Nodes : MatchesSelector(El(doc, n), Head(selectors)) })
       IN IF found # 0 THEN [rm |-> rm, element |-> found]
          ELSE findMainContent(doc, rm, Tail(selectors))

\* extractAuthor on a tree with the elements rm detached
RECURSIVE extractAuthor(_, _, _)
extractAuthor(doc, rm, selectors) ==
  IF selectors = <<>> THEN Undefined
  ELSE LET authorElement ==
             QueryFirst(doc, rm, { n \in Nodes : MatchesSelector(El(doc, n), Head(selectors)) })
       IN IF authorElement # 0 /\ TextContent(doc, rm, authorElement) # <<>>
          THEN Some(Trim(TextContent(doc, rm, authorElement)))
          ELSE extractAuthor(doc, rm, Tail(selectors))

\* the pages of the tab
PageDocs ==
  { MkDoc(t, PlainTitle, <<>>, TRUE) :
      t \in Trees({"article", "div", "nav", "sidebar", "byline"}) }

Pages == [doc : PageDocs, url : {"https://a/", "https://b/"}]

InitPage ==
  /\ pc = "extractPageContent"
  /\ page \in Pages
  /\ liveRemoved = {}
  /\ cloneRemoved = {}
  /\ pageContent = NoPageContent
  /\ FetcherIdle
  /\ WorkerIdle
  /\ ScoreIdle
  /\ PopupIdle

\* what a step of the content script leaves alone
PageFrame == UNCHANGED <<fetcherVars, workerVars, scoreVars, popupVars>>

\* removeElements run on `document` itself (`const clonedDocument = document`)
RemoveElements_Live ==
  /\ pc = "extractPageContent"
  /\ liveRemoved' = removeElements(page.doc, liveRemoved, ELEMENTS_TO_REMOVE)
  /\ cloneRemoved' = liveRemoved'
  /\ pc' = "findMainContent"
  /\ UNCHANGED <<page, pageContent>>
  /\ PageFrame

\* const clonedDocument = document.cloneNode(true);
\* removeElements(clonedDocument, ELEMENTS_TO_REMOVE)
RemoveElements ==
  /\ pc = "extractPageContent"
  /\ cloneRemoved' = removeElements(page.doc, liveRemoved, ELEMENTS_TO_REMOVE)
  /\ pc' = "findMainContent"
  /\ UNCHANGED <<page, liveRemoved, pageContent>>
  /\ PageFrame

\* findMainContent(clonedDocument), extractAuthor() and the return statement
ReturnPageContent ==
  /\ pc = "findMainContent"
  /\ LET found == findMainContent(page.doc, cloneRemoved, PAGE_CONTENT_SELECTORS)
         inner == InnerHTML(page.doc, found.rm, found.element)
     IN /\ cloneRemoved' = found.rm
        /\ pageContent' =
             [title |-> Trim(CollapseSpace(page.doc.title.text)),
              content |-> IF inner # <<>> THEN inner ELSE InnerHTML(page.doc, liveRemoved, 0),
              url |-> page.url,
              author |-> extractAuthor(page.doc, liveRemoved, PAGE_AUTHOR_SELECTORS)]
  /\ pc' = "extractPageContentDone"
  /\ UNCHANGED <<page, liveRemoved>>
  /\ PageFrame

NextPage == RemoveElements \/ ReturnPageContent

SpecPage == InitPage /\ [][NextPage]_vars

\* ------------------------------------------- the popup of the extension
MaxClicks == 3

\* the locals of one run of a click handler: the statement it waits at and the
\* PageContent it holds
Handler(kind, at, held) == [kind |-> kind, pc |-> at, pageContent |-> held]

HandlerIds == DOMAIN handlers

InitPopup ==
  /\ pc = "popup"
  /\ cachedPageContent = Null
  /\ handlers = <<>>
  /\ extractions = 0
  /\ sendPageBtnDisabled = FALSE
  /\ FetcherIdle
  /\ WorkerIdle
  /\ ScoreIdle
  /\ PageIdle

\* what a step of the popup leaves alone
PopupFrame == UNCHANGED <<pc, fetcherVars, workerVars, scoreVars, pageVars>>

\* a click on previewArticleBtn: showPreview up to its await, or to its end when
\* the content is cached
ClickPreview ==
  /\ pc = "popup"
  /\ Len(handlers) < MaxClicks
  /\ handlers' = Append(handlers,
                   IF cachedPageContent = Null
                   THEN Handler("showPreview", "extractPageContent", Null)
                   ELSE Handler("showPreview", "done", cachedPageContent))
  /\ UNCHANGED <<cachedPageContent, extractions, sendPageBtnDisabled>>
  /\ PopupFrame

\* a click on sendPageBtn, which a disabled button does not deliver:
\* sendCurrentPage up to `await this.configService.getValidConfiguration()`
ClickSend ==
  /\ pc = "popup"
  /\ Len(handlers) < MaxClicks
  /\ ~sendPageBtnDisabled
  /\ handlers' = Append(handlers, Handler("sendCurrentPage", "getValidConfiguration", Null))
  /\ UNCHANGED <<cachedPageContent, extractions, sendPageBtnDisabled>>
  /\ PopupFrame

\* sendCurrentPage from the configuration to its next await
ResumeWithConfiguration(h) ==
  /\ handlers[h].pc = "getValidConfiguration"
  /\ \E config \in BOOLEAN :
       IF ~config
       THEN /\ handlers' = [handlers EXCEPT ![h].pc = "done"]
            /\ UNCHANGED sendPageBtnDisabled
       ELSE /\ sendPageBtnDisabled' = TRUE
            /\ handlers' = [handlers EXCEPT ![h] =
                 IF cachedPageContent = Null
                 THEN Handler("sendCurrentPage", "extractPageContent", Null)
                 ELSE Handler("sendCurrentPage", "sendToWorker", cachedPageContent)]
  /\ UNCHANGED <<cachedPageContent, extractions>>
  /\ PopupFrame

\* `await this.pageInfoService.extractPageContent()` settles: the content of the
\* page as it is now, or an ExtensionError
SettleExtractPageContent(h) ==
  /\ handlers[h].pc = "extractPageContent"
  /\ \E extracted \in BOOLEAN :
       IF extracted
       THEN /\ extractions' = extractions + 1
            /\ cachedPageContent' = extractions + 1
            /\ handlers' = [handlers EXCEPT ![h] =
                 IF handlers[h].kind = "showPreview"
                 THEN Handler("showPreview", "done", extractions + 1)
                 ELSE Handler("sendCurrentPage", "sendToWorker", extractions + 1)]
            /\ UNCHANGED sendPageBtnDisabled
       ELSE /\ handlers' = [handlers EXCEPT ![h].pc = "done"]
            /\ sendPageBtnDisabled' =
                 IF handlers[h].kind = "sendCurrentPage" THEN FALSE ELSE sendPageBtnDisabled
            /\ UNCHANGED <<cachedPageContent, extractions>>
  /\ PopupFrame

\* `await this.workerService.sendToWorker(config, pageContent)` settles; finally
SettleSendToWorker(h) ==
  /\ handlers[h].pc = "sendToWorker"
  /\ handlers' = [handlers EXCEPT ![h].pc = "done"]
  /\ sendPageBtnDisabled' = FALSE
  /\ UNCHANGED <<cachedPageContent, extractions>>
  /\ PopupFrame

NextPopup ==
  \/ ClickPreview
  \/ ClickSend
  \/ \E h \in HandlerIds : ResumeWithConfiguration(h)
  \/ \E h \in HandlerIds : SettleExtractPageContent(h)
  \/ \E h \in HandlerIds : SettleSendToWorker(h)

SpecPopup == InitPopup /\ [][NextPopup]_vars

\* ------------------------------------------------------------------ claims

\* C8 as stated: cleanText is idempotent, cleanText(cleanText(s)) = cleanText(s)
\* for every string s.  Refuted by s = "&amp;lt;": cleaned once it is "&lt;",
\* cleaned twice it is "<".
C8_Idempotent == pc = "cleanTextDone" => recleaned = cleaned

\* C8 amended: cleanText(cleanText(s)) = cleanText(s) for every string s whose
\* cleaned text holds neither "&" nor "<" (nothing is left in it that the
\* fragment parser would decode or drop).
C8_IdempotentOnPlainText ==
  (pc = "cleanTextDone" /\ "&" \notin Range(cleaned) /\ "<" \notin Range(cleaned))
    => recleaned = cleaned

\* a string with a run of mixed whitespace inside it has been cleaned twice
C8_Witness ==
  /\ pc = "cleanTextDone"
  /\ "tab" \in Range(text)
  /\ "&" \notin Range(cleaned) /\ "<" \notin Range(cleaned)
  /\ " " \in Range(cleaned) /\ cleaned # text
  /\ recleaned = cleaned

\* ---- vocabulary of the claims about extractContent

Returned == pc = "done" /\ result.status = "returned" /\ hasDocument

\* the elements that are noise: those with a tag of UNWANTED_SELECTORS or a
\* class token of UNWANTED_CLASSES, and everything inside them
Noise(doc) ==
  { n \in Nodes : \E a \in {n} \cup Ancestors(doc, n) :
      \/ \E i \in DOMAIN UNWANTED_SELECTORS : KINDS[doc.kind[a]].tag = UNWANTED_SELECTORS[i]
      \/ \E i \in DOMAIN UNWANTED_CLASSES : UNWANTED_CLASSES[i] \in KINDS[doc.kind[a]].classes }

\* the elements of the noise-pruned document
Pruned(doc) == Nodes \ Noise(doc)

\* the elements of the noise-pruned document that content selector i matches
Candidates(doc, i) ==
  { n \in Pruned(doc) : MatchesContentSelector(KINDS[doc.kind[n]], CONTENT_SELECTORS[i]) }

SomeSelectorMatches(doc) == \E i \in DOMAIN CONTENT_SELECTORS : Candidates(doc, i) # {}

\* the first element, in document order, of the earliest selector that matches
Container(doc) ==
  LET i == SeqMin({ j \in DOMAIN CONTENT_SELECTORS : Candidates(doc, j) # {} })
  IN SeqMin(Candidates(doc, i))

\* the characters of the text nodes of the elements S
TextOf(doc, S) == UNION { Range(OwnText(doc, n)) : n \in S }

\* the characters of content that come from text nodes of the body
BodyTextIn(s) == Range(s) \cap { Marker(n) : n \in Nodes }

\* the cleaned text of element n of the noise-pruned document
CleanedTextOf(doc, n) == cleanText(TextContent(doc, Noise(doc), n))

\* the trimmed inner markup of element n of the noise-pruned document
MarkupOf(doc, n) == Trim(InnerHTML(doc, Noise(doc), n))

IsSuffix(t, s) == Len(t) <= Len(s) /\ SubSeq(s, Len(s) - Len(t) + 1, Len(s)) = t

\* C1: text that occurs only inside noise elements never appears in the
\* content extractContent returns, whichever branch produced the content.
C1_NoiseExcluded ==
  Returned => \A n \in Noise(document) : Marker(n) \notin Range(result.content)

\* content with text in it was taken from a container that had an element
\* with an unwanted class, and text of its own, as a child
C1_Witness ==
  /\ Returned
  /\ via = "selector"
  /\ BodyTextIn(result.content) # {}
  /\ \E n \in Noise(document) :
       /\ KINDS[document.kind[n]].classes # {}
       /\ OwnText(document, n) # <<>>
       /\ document.parent[n] = Container(document)

\* C2: when several content selectors match, the content is taken from the
\* first element of the earliest selector in list order, wherever the
\* candidates sit in document order (an <article> wins over a .content div).
C2_SelectorPriority ==
  (Returned /\ SomeSelectorMatches(document)) =>
    LET inner == Trim(InnerHTML(document, Noise(document), Container(document)))
    IN /\ IsSuffix(inner, result.content)
       /\ BodyTextIn(SubSeq(result.content, Len(result.content) - Len(inner) + 1,
                            Len(result.content)))
            = TextOf(document, Subtree(document, Container(document)) \ Noise(document))
       /\ Len(result.content) > Len(inner) => Head(result.content) = "<h1>"

\* C3: the paragraph+heading fallback runs only when no content selector
\* matches any element of the noise-pruned document (a matched container
\* without content included).
C3_FallbackOnlyWithoutMatch ==
  via = "fallback" => ~SomeSelectorMatches(document)

\* C4: on a content-selector match the content is extracted from the matched
\* element only; no text from outside its subtree appears in content.
C4_OnlyMatchedSubtree ==
  (Returned /\ SomeSelectorMatches(document)) =>
    BodyTextIn(result.content) \subseteq TextOf(document, Subtree(document, Container(document)))

\* the "<h1>..</h1>" prefixes findContentBySelectors may put in front of the
\* markup of container c: one per title heading with text that precedes c
TitlePrefixes(doc, c) ==
  { <<"<h1>">> \o Trim(TextContent(doc, Noise(doc), h)) \o <<"</h1>">> :
      h \in { n \in Pruned(doc) : /\ n < c
                                  /\ KINDS[doc.kind[n]].tag = "h1"
                                  /\ KINDS[doc.kind[n]].classes \cap TITLE_SUBSTRING_CLASSES # {}
                                  /\ Trim(TextContent(doc, Noise(doc), n)) # <<>> } }

\* C4 amended: on a content-selector match, what findContentBySelectors
\* returns is the inner markup of the one matched element (the first element
\* of the earliest matching selector), preceded at most by an <h1> holding the
\* text of a title heading that precedes that element; no other text from
\* outside the matched subtree is in it.
C4_MatchedSubtreeAndTitle ==
  (hasDocument /\ pc \in {"ifContentOpt", "return", "done"} /\ SomeSelectorMatches(document)) =>
    LET c == Container(document)
        inner == MarkupOf(document, c)
    IN /\ contentOpt.def
       /\ \/ contentOpt.v = inner
          \/ \E pre \in TitlePrefixes(document, c) : contentOpt.v = pre \o inner
       /\ BodyTextIn(inner) \subseteq TextOf(document, Subtree(document, c))

\* the content of a container with text was returned with a title prefix,
\* and the text of an element that follows the container is not in it
C4_Witness ==
  /\ Returned /\ via = "selector" /\ SomeSelectorMatches(document)
  /\ Head(result.content) = "<h1>"
  /\ BodyTextIn(MarkupOf(document, Container(document))) # {}
  /\ \E n \in Pruned(document) :
       /\ n \notin Subtree(document, Container(document))
       /\ n > Container(document)
       /\ OwnText(document, n) # <<>>
       /\ Marker(n) \notin Range(result.content)

\* C5: with no content selector matching, the fallback content is every h1-h6
\* with non-empty cleaned text followed by every <p> whose cleaned text is
\* longer than 30 characters (length of the cleaned text, not of the markup),
\* each group in document order, joined by single spaces.
C5_FallbackByCleanedLength ==
  LET doc == document
      hs == SortedSeq({ n \in Pruned(doc) : /\ KINDS[doc.kind[n]].tag \in HEADING_TAGS
                                            /\ CleanedTextOf(doc, n) # <<>> })
      ps == SortedSeq({ n \in Pruned(doc) : /\ KINDS[doc.kind[n]].tag = "p"
                                            /\ Len(CleanedTextOf(doc, n)) > 30 })
      parts == hs \o ps
  IN (Returned /\ ~SomeSelectorMatches(doc) /\ parts # <<>>)
       => result.content = JoinSp([i \in DOMAIN parts |-> MarkupOf(doc, parts[i])])

\* no <p> and no heading of the noise-pruned document passes the filter of
\* the fallback (trimmed inner markup longer than 30 characters for a <p>,
\* non-empty for a heading)
NothingQualifies(doc) ==
  \A n \in Pruned(doc) :
    /\ KINDS[doc.kind[n]].tag = "p" => StrLen(MarkupOf(doc, n)) <= 30
    /\ KINDS[doc.kind[n]].tag \in HEADING_TAGS => MarkupOf(doc, n) = <<>>

\* C6 as stated: with no selector matching and nothing qualifying for the
\* fallback, content is the cleaned text of the whole <body> of the
\* noise-pruned document, and the empty string when there is no body.
C6_BodyCleanedText ==
  (Returned /\ ~SomeSelectorMatches(document) /\ NothingQualifies(document))
    => result.content = IF document.hasBody THEN CleanedTextOf(document, 0) ELSE <<>>

\* C6 amended: in that case content is the trimmed inner markup of the whole
\* <body> of the noise-pruned document, and the empty string when there is
\* no body.
C6_BodyInnerMarkup ==
  (Returned /\ ~SomeSelectorMatches(document) /\ NothingQualifies(document))
    => result.content = IF document.hasBody THEN MarkupOf(document, 0) ELSE <<>>

\* the whole-body branch produced content holding markup around text, next to
\* a paragraph that was too short to qualify and to a pruned element
C6_Witness ==
  /\ Returned /\ ~SomeSelectorMatches(document) /\ NothingQualifies(document)
  /\ document.hasBody
  /\ BodyTextIn(result.content) # {}
  /\ "<div>" \in Range(result.content)
  /\ "<p>" \in Range(result.content)

\* C7: an empty or whitespace-only string yields exactly
\* {title: '', content: '', author: undefined, publishedDate: undefined}
\* and the document loader is never called.
C7_BlankShortCircuit ==
  (html.isString /\ \A i \in DOMAIN html.text : html.text[i] \in {" ", "nl", "tab", "nbsp"})
    => /\ loaderCalls = 0
       /\ ~hasDocument
       /\ pc \in {"extractContent", "done"}
       /\ pc = "done" => result = [status |-> "returned", title |-> <<>>, content |-> <<>>,
                                   author |-> Undefined, publishedDate |-> Undefined,
                                   errorName |-> "", error |-> "", errorDetail |-> ""]

\* extractContent has returned for a whitespace-only string
C7_Witness ==
  /\ pc = "done" /\ html.isString /\ html.text = <<"nl", "tab", "nbsp">>
  /\ result.status = "returned" /\ loaderCalls = 0

\* the first <h1> of the document as the loader built it, or 0
FirstH1(doc) ==
  LET hs == { n \in Nodes : KINDS[doc.kind[n]].tag = "h1" }
  IN IF hs = {} THEN 0 ELSE SeqMin(hs)

NonBlank(s) == \E i \in DOMAIN s : ~IsSpace(s[i])

\* C9: extractTitle returns the cleaned <title> text when a <title> exists
\* and is non-empty after trimming; otherwise the cleaned text of the first
\* <h1> when that is non-empty; otherwise the empty string.
C9_TitlePrecedence ==
  (hasDocument /\ pc \notin {"extractContent", "createDocument", "extractTitle"}) =>
    LET doc == document
        h == FirstH1(doc)
    IN title = IF doc.title.has /\ NonBlank(doc.title.text)
               THEN cleanText(doc.title.text)
               ELSE IF h # 0 /\ NonBlank(TextContent(doc, {}, h))
                    THEN cleanText(TextContent(doc, {}, h))
                    ELSE <<>>

\* a blank <title> made extractTitle take the text of the first <h1>, which
\* is followed by a blank <h1>
C9_Witness ==
  /\ Returned
  /\ document.title.has /\ ~NonBlank(document.title.text)
  /\ result.title # <<>>
  /\ \E n \in Nodes : n > FirstH1(document) /\ document.kind[n] = "h1blank"

\* the first <meta> selector i of the list designates, or 0
FirstMeta(doc, selectors, i) ==
  LET ms == { k \in DOMAIN doc.metas : /\ doc.metas[k].attr = selectors[i].attr
                                        /\ doc.metas[k].v = selectors[i].v }
  IN IF ms = {} THEN 0 ELSE SeqMin(ms)

\* selector i designates an element whose content attribute is not blank
Qualifies(doc, selectors, i) ==
  LET k == FirstMeta(doc, selectors, i)
  IN k # 0 /\ doc.metas[k].has /\ NonBlank(doc.metas[k].content)

\* what C10 says extractMetaContent returns for a selector list
MetaExpected(doc, selectors) ==
  LET q == { i \in DOMAIN selectors : Qualifies(doc, selectors, i) }
  IN IF q = {} THEN Undefined
     ELSE Some(Trim(doc.metas[FirstMeta(doc, selectors, SeqMin(q))].content))

\* C10: extractMetaContent returns the trimmed content attribute of the first
\* selector, in list order, whose element has a content attribute that is
\* non-empty after trimming; selectors whose element has no or a blank
\* content attribute are skipped; undefined when none qualifies.
C10_FirstQualifyingMeta ==
  (hasDocument /\ pc \in {"removeElementsBySelectors", "removeElementsByClasses",
                          "findContentBySelectors", "ifContentOpt", "return", "done"}) =>
    /\ metadata.author = MetaExpected(document, AUTHOR_SELECTORS)
    /\ metadata.publishedDate = MetaExpected(document, DATE_SELECTORS)

\* the element of the first author selector has a blank content attribute,
\* and the author was taken, trimmed, from a later selector
C10_Witness ==
  /\ Returned
  /\ FirstMeta(document, AUTHOR_SELECTORS, 1) # 0
  /\ ~Qualifies(document, AUTHOR_SELECTORS, 1)
  /\ result.author = Some(<<"A">>)

\* the first <meta attr="v"> of the document, or 0
MetaNamed(doc, attr, v) ==
  LET ms == { k \in DOMAIN doc.metas : doc.metas[k].attr = attr /\ doc.metas[k].v = v }
  IN IF ms = {} THEN 0 ELSE SeqMin(ms)

BothAuthorMetas(doc) ==
  /\ MetaNamed(doc, "name", "author") # 0
  /\ MetaNamed(doc, "property", "article:author") # 0

\* C11 as stated: whenever a document contains both a <meta name="author">
\* and a <meta property="article:author">, the author extractContent returns
\* is the one taken from <meta name="author">.
C11_NameAuthorPreferred ==
  (Returned /\ BothAuthorMetas(document)) =>
    LET m == document.metas[MetaNamed(document, "name", "author")]
    IN result.author = (IF m.has THEN Some(Trim(m.content)) ELSE Undefined)

\* C11 amended: whenever a document contains both, and the content attribute
\* of the (first) <meta name="author"> is non-empty after trimming, the
\* author returned is that content, trimmed.
C11_NameAuthorPreferredWhenNonBlank ==
  (Returned /\ BothAuthorMetas(document)) =>
    LET m == document.metas[MetaNamed(document, "name", "author")]
    IN (m.has /\ NonBlank(m.content)) => result.author = Some(Trim(m.content))

\* <meta property="article:author" content="B"> comes first in the document,
\* <meta name="author" content=" A "> second, and the author returned is "A"
C11_Witness ==
  /\ Returned /\ BothAuthorMetas(document)
  /\ MetaNamed(document, "property", "article:author") < MetaNamed(document, "name", "author")
  /\ document.metas[MetaNamed(document, "property", "article:author")].content = <<"B">>
  /\ result.author = Some(<<"A">>)

\* a JavaScript string value: a finite sequence of characters
IsString(s) == DOMAIN s = 1..Len(s)

\* some <meta> designated by one of the selectors carries non-blank content
SomeMetaWithContent(doc, selectors) ==
  \E k \in DOMAIN doc.metas :
    /\ \E i \in DOMAIN selectors :
         doc.metas[k].attr = selectors[i].attr /\ doc.metas[k].v = selectors[i].v
    /\ doc.metas[k].has /\ NonBlank(doc.metas[k].content)

\* an optional field of the result: undefined, or a non-empty string without
\* leading or trailing whitespace, defined only if a matching <meta> has
\* non-blank content
OptionalFieldOk(o, doc, selectors) ==
  \/ o = Undefined
  \/ /\ o.def /\ IsString(o.v) /\ o.v # <<>>
     /\ ~IsSpace(o.v[1]) /\ ~IsSpace(o.v[Len(o.v)])
     /\ hasDocument /\ SomeMetaWithContent(doc, selectors)

\* C12: for every string input on which extractContent returns, title and
\* content are strings (possibly empty), and author and publishedDate are each
\* undefined or a non-empty string without leading or trailing whitespace,
\* defined only when a matching meta tag with non-blank content was found and
\* never the empty string.
C12_ResultShape ==
  (pc = "done" /\ html.isString /\ result.status = "returned") =>
    /\ IsString(result.title) /\ IsString(result.content)
    /\ OptionalFieldOk(result.author, document, AUTHOR_SELECTORS)
    /\ OptionalFieldOk(result.publishedDate, document, DATE_SELECTORS)

\* a result with an author trimmed from " A " and no publishedDate, next to a
\* <meta> whose content is blank
C12_Witness ==
  /\ Returned
  /\ result.author = Some(<<"A">>) /\ result.publishedDate = Undefined
  /\ \E k \in DOMAIN document.metas :
       document.metas[k].has /\ ~NonBlank(document.metas[k].content)

\* C13: if the document loader fails on the given string, extractContent
\* fails with a distinct parse-error type (ArticleParseError) that carries the
\* underlying cause; the failure is not swallowed, not converted into a
\* default result, and its type differs from that of the invalid-input error
\* (a plain Error).
C13_TypedParseError ==
  (pc = "done" /\ html.isString /\ html.throws) =>
    /\ result.status = "threw"
    /\ result.errorDetail = html.loaderError
    /\ result.errorName = "ArticleParseError"
    /\ result.errorName # "Error"

\* C14: extractContent called with a non-string argument fails immediately
\* with an error and no partial result: no document is built and no title,
\* metadata or content extraction step runs.
C14_NonStringFailsFirst ==
  ~html.isString =>
    /\ pc \in {"extractContent", "done"}
    /\ loaderCalls = 0 /\ ~hasDocument /\ removed = {}
    /\ title = <<>> /\ metadata = NoMetadata /\ contentOpt = Undefined
    /\ content = <<>> /\ via = "none"
    /\ pc = "done" =>
         result = [NoResult EXCEPT !.status = "threw", !.errorName = "Error",
                                   !.error = "Invalid HTML input: must be a string"]

\* extractContent has thrown for a non-string argument
C14_Witness ==
  /\ pc = "done" /\ ~html.isString
  /\ result.status = "threw" /\ result.error = "Invalid HTML input: must be a string"

\* the elements removed because of their tag: those with a tag of
\* UNWANTED_SELECTORS and everything inside them
TagNoise(doc) ==
  { n \in Nodes : \E a \in {n} \cup Ancestors(doc, n) :
      \E i \in DOMAIN UNWANTED_SELECTORS : KINDS[doc.kind[a]].tag = UNWANTED_SELECTORS[i] }

\* one of the class tokens of element n equals an entry of UNWANTED_CLASSES
HasUnwantedToken(doc, n) ==
  \E i \in DOMAIN UNWANTED_CLASSES : UNWANTED_CLASSES[i] \in KINDS[doc.kind[n]].classes

AfterNoiseRemoval ==
  hasDocument /\ pc \in {"findContentBySelectors", "ifContentOpt", "return", "done"}

\* C15: the Noise Remover removes an element by class exactly when one of its
\* space-separated class tokens equals an UNWANTED_CLASSES entry (the element
\* goes with its subtree); an element whose class name merely contains an
\* entry as a substring ("sidebarwrapper", "antisocial-club") and that does not
\* lie inside a removed subtree is kept.
C15_ClassTokenMatch ==
  AfterNoiseRemoval =>
    \A n \in Nodes \ TagNoise(document) :
      /\ n \in removed <=>
           \E a \in {n} \cup Ancestors(document, n) : HasUnwantedToken(document, a)
      /\ ( /\ KINDS[document.kind[n]].classes \cap SUBSTRING_CLASSES # {}
           /\ \A a \in Ancestors(document, n) : a \notin removed )
         => n \notin removed

\* a div of class "lead sidebar" was removed together with a "sidebarwrapper"
\* div inside it, and a "sidebarwrapper" div outside it was kept and its text
\* is in the content returned
C15_Witness ==
  /\ Returned
  /\ \E m, w, k \in Nodes :
       /\ document.kind[m] = "multi" /\ m \in removed
       /\ document.kind[w] = "wrapper" /\ document.parent[w] = m /\ w \in removed
       /\ document.kind[k] = "wrapper" /\ k \notin removed
       /\ Marker(k) \in Range(result.content)

\* C16: for every document, the tree left by noise removal does not depend on
\* whether tag removal runs before or after class removal, and applying
\* removeUnwantedElements a second time to its own result removes nothing.
C16_OrderFreeIdempotent ==
  (hasDocument /\ pc = "findContentBySelectors") =>
    /\ removed = removeElementsBySelectors(document, removeElementsByClasses(document, {}))
    /\ removeElementsByClasses(document, removeElementsBySelectors(document, removed)) = removed

\* noise was removed from a document in which an element with an unwanted tag
\* and one with an unwanted class are nested in each other, and at least one
\* element is kept
C16_Witness ==
  /\ hasDocument /\ pc = "findContentBySelectors"
  /\ \E a, b \in removed :
       /\ a \in Ancestors(document, b)
       /\ HasUnwantedTag(El(document, a)) # HasUnwantedTag(El(document, b))
       /\ HasUnwantedClass(El(document, a)) # HasUnwantedClass(El(document, b))
  /\ removed # Nodes

\* the characters of s that are text of the elements S, in the order of s
TextOfIn(s, doc, S) ==
  LET Keep(c) == c \in { Marker(n) : n \in S }
  IN SelectSeq(s, Keep)

\* C17: after removeUnwantedElements the document contains no element with a
\* tag in UNWANTED_SELECTORS and no element with a class token in
\* UNWANTED_CLASSES, and every element that neither matched nor lay inside a
\* matched subtree is still in the tree, in its original relative order.
C17_NoiseGoneRestKept ==
  AfterNoiseRemoval =>
    /\ \A n \in Nodes \ removed :
         /\ \A i \in DOMAIN UNWANTED_SELECTORS :
              KINDS[document.kind[n]].tag # UNWANTED_SELECTORS[i]
         /\ \A i \in DOMAIN UNWANTED_CLASSES :
              UNWANTED_CLASSES[i] \notin KINDS[document.kind[n]].classes
    /\ \A n \in Pruned(document) : n \notin removed
    /\ TextOfIn(TextContent(document, removed, 0), document, Nodes)
         = TextOfIn(TextContent(document, {}, 0), document, Pruned(document))

\* an element with an unwanted tag or class was removed from between two
\* elements that were kept
C17_Witness ==
  /\ AfterNoiseRemoval
  /\ \E k1, r, k2 \in Nodes :
       /\ k1 < r /\ r < k2
       /\ k1 \notin removed /\ k2 \notin removed /\ r \in removed
       /\ OwnText(document, k1) # <<>> /\ OwnText(document, k2) # <<>>

\* what extractContent returns or throws for argument h when it is the only
\* call made
AloneResult(h) ==
  IF ~h.isString
  THEN [NoResult EXCEPT !.status = "threw", !.errorName = "Error",
                        !.error = "Invalid HTML input: must be a string"]
  ELSE IF Trim(h.text) = <<>> THEN [NoResult EXCEPT !.status = "returned"]
  ELSE IF h.throws
  THEN [NoResult EXCEPT !.status = "threw", !.errorName = "Error",
                        !.error = "Failed to parse HTML: ", !.errorDetail = h.loaderError]
  ELSE LET pruned == removeElementsByClasses(h.doc, removeElementsBySelectors(h.doc, {}))
           found == findContentBySelectors(h.doc, pruned, CONTENT_SELECTORS)
           md == extractMetadata(h.doc)
       IN [status |-> "returned", title |-> extractTitle(h.doc, {}),
           content |-> IF Truthy(found.content) THEN found.content.v
                       ELSE extractContentFallback(h.doc, found.rm).content,
           author |-> md.author, publishedDate |-> md.publishedDate,
           errorName |-> "", error |-> "", errorDetail |-> ""]

\* the calls that hold tree k
HoldersOf(k) == { i \in CallIds : calls[i].document = k }

\* C18: interleaved or concurrent extractContent calls do not influence each
\* other: no two calls hold the same document tree and a step changes only
\* the tree of the call that takes it, the module-level selector lists are
\* never modified, and every call returns (or throws) what it returns when
\* run alone, also when another call fails.
C18_CallsIndependent ==
  /\ [](pc = "calls" =>
          /\ lists = SelectorLists
          /\ \A k \in DOMAIN heap : Cardinality(HoldersOf(k)) <= 1
          /\ \A i \in CallIds :
               calls[i].pc = "done" => calls[i].result = AloneResult(calls[i].html))
  /\ [][pc = "calls" =>
          \A k \in DOMAIN heap :
            heap'[k] # heap[k] =>
              \E i \in CallIds : HoldersOf(k) = {i} /\ calls'[i] # calls[i]]_vars

\* two calls given the same source have both returned, each from a tree of
\* its own that it removed elements from
C18_Witness ==
  /\ pc = "calls"
  /\ \A i \in CallIds : calls[i].pc = "done" /\ calls[i].result.status = "returned"
  /\ calls[1].html = calls[2].html
  /\ calls[1].document # 0 /\ calls[2].document # 0 /\ calls[1].document # calls[2].document
  /\ \A k \in DOMAIN heap : heap[k].removed # {}

\* the cleaned text of element n in plain-text mode
PlainTextOf(doc, n) == cleanContentText(TextContent(doc, {}, n))

\* the elements inside container c (0: the whole fragment) with a tag in tags
\* whose cleaned text is longer than min, in document order
Qualifying(doc, c, tags, min) ==
  SortedSeq({ n \in Nodes : /\ c = 0 \/ c \in Ancestors(doc, n)
                            /\ KINDS[doc.kind[n]].tag \in tags
                            /\ Len(PlainTextOf(doc, n)) > min })

\* C19: in plain-text mode the element text extractor returns the matched
\* container's headings (h1-h6 with non-empty cleaned text), then its
\* paragraphs (cleaned text longer than 10 characters), then its list items
\* (cleaned text longer than 10 characters), each group in document order and
\* all joined by single spaces; if no element of the three groups qualifies it
\* returns the cleaned text of the whole element.
C19_HeadingsParagraphsItems ==
  pc = "extractTextFromElementDone" =>
    LET parts == Qualifying(document, element, {"h1", "h2", "h3", "h4", "h5", "h6"}, 0)
                   \o Qualifying(document, element, {"p"}, 10)
                   \o Qualifying(document, element, {"li"}, 10)
    IN content = IF parts # <<>>
                 THEN JoinSp([i \in DOMAIN parts |-> PlainTextOf(document, parts[i])])
                 ELSE PlainTextOf(document, element)

\* a list item, a paragraph and a heading, in this order in the container and
\* all qualifying, came out as heading, paragraph, list item
C19_Witness ==
  /\ pc = "extractTextFromElementDone"
  /\ \E l, q, h \in Nodes :
       /\ l < q /\ q < h
       /\ document.kind[l] = "li11" /\ document.kind[q] = "p11" /\ document.kind[h] = "h2"
       /\ content = PlainTextOf(document, h) \o <<" ">> \o PlainTextOf(document, q)
                      \o <<" ">> \o PlainTextOf(document, l)

RECURSIVE AmpDecoded(_)
AmpDecoded(s) ==
  IF s = <<>> THEN <<>>
  ELSE IF Len(s) >= 5 /\ SubSeq(s, 1, 5) = <<"&", "a", "m", "p", ";">>
       THEN <<"&">> \o AmpDecoded(SubSeq(s, 6, Len(s)))
       ELSE <<Head(s)>> \o AmpDecoded(Tail(s))

\* s is made of the letter x, whitespace and whole "&amp;" references only
OnlyAmpReferences(s) ==
  /\ Range(s) \subseteq {"x", " ", "nl", "tab", "&", "a", "m", "p", ";"}
  /\ \A i \in DOMAIN s :
       /\ s[i] = "&" => (i + 4 <= Len(s) /\ SubSeq(s, i, i + 4) = <<"&", "a", "m", "p", ";">>)
       /\ s[i] = "a" => (i > 1 /\ s[i - 1] = "&")

\* s with every whitespace run turned into one space and the outer ones dropped
\* (seen: a character has been written; gap: whitespace was read since)
RECURSIVE Squeezed(_, _, _)
Squeezed(s, seen, gap) ==
  IF s = <<>> THEN <<>>
  ELSE IF Head(s) \in {" ", "nl", "tab", "nbsp"} THEN Squeezed(Tail(s), seen, TRUE)
  ELSE (IF seen /\ gap THEN <<" ">> ELSE <<>>) \o <<Head(s)>>
         \o Squeezed(Tail(s), TRUE, FALSE)

\* C21: for every input string the result of cleanText has no leading or
\* trailing whitespace and no run of two or more whitespace characters (every
\* whitespace run, newlines and tabs included, becomes one space), and HTML
\* entities of the input are decoded ("&amp;" becomes "&").
C21_CleanTextNormalForm ==
  pc \in {"cleanTextAgain", "cleanTextDone"} =>
    /\ cleaned # <<>> => (cleaned[1] # " " /\ cleaned[Len(cleaned)] # " ")
    /\ Range(cleaned) \cap {"nl", "tab", "nbsp"} = {}
    /\ \A i \in 1..(Len(cleaned) - 1) : ~(cleaned[i] = " " /\ cleaned[i + 1] = " ")
    /\ OnlyAmpReferences(text) =>
         cleaned = Squeezed(AmpDecoded(text), FALSE, FALSE)

\* "x", a run of tab, space and newline, and "&amp;" were cleaned to "x &"
C21_Witness ==
  /\ pc = "cleanTextDone"
  /\ text = <<"x", "tab", " ", "nl", "&", "a", "m", "p", ";">>
  /\ cleaned = <<"x", " ", "&">>

\* the "&" at position i of c stands alone: whitespace or an end of the
\* string on both sides
IsolatedAt(c, i) ==
  /\ c[i] = "&"
  /\ i = 1 \/ c[i - 1] = " "
  /\ i = Len(c) \/ c[i + 1] = " "

Responded == pc = "responded"

TheResponse == responses[1]

\* the steps of a request that is carried out to the end
PIPELINE == <<"json", "fetchAndExtractArticle", "convertToEpub", "send", "sent">>

IsPrefix(s, t) == Len(s) <= Len(t) /\ \A i \in 1..Len(s) : s[i] = t[i]

\* the body is a KindleRequest with a URL and an address of the right form
WellFormed(json) ==
  /\ json.kind = "object"
  /\ json.url.type = "string"
  /\ UrlParses(json.url.v)
  /\ json.kindleEmail.type = "string"
  /\ emailRegex(json.kindleEmail.v)
  /\ json.fromEmail.type \in {"absent", "string"}
  /\ json.subject.type \in {"absent", "string"}

\* C23: every request gets exactly one response: 405 'Method not allowed' for any
\* method but POST, before the body is read; for a POST, 400 exactly when the body
\* is readable and fails validation, 200 exactly when the whole pipeline ran and the
\* email was sent, and 500 for every other failure (unreadable body, failed fetch,
\* EPUB conversion or send); until it responds the handler can always go on.
C23_OneResponsePerRequest ==
  /\ ~Responded => responses = <<>> /\ ENABLED NextWorker
  /\ Responded =>
       /\ Len(responses) = 1
       /\ IF request.method # "POST"
          THEN TheResponse = Response(405, "Method not allowed") /\ effects = <<>>
          ELSE /\ TheResponse.status \in {200, 400, 500}
               /\ TheResponse.status = 400 <=>
                    request.json.kind # "unreadable" /\ ~WellFormed(request.json)
               /\ TheResponse.status = 200 <=> "sent" \in Range(effects)
               /\ TheResponse.status = 200 => effects = PIPELINE
               /\ TheResponse.status = 500 =>
                    TheResponse.error = "Internal server error"

\* C23 witness: the Resend API answers with an error and the request ends in a 500
C23_Witness ==
  /\ Responded
  /\ request.method = "POST"
  /\ effects = <<"json", "fetchAndExtractArticle", "convertToEpub", "send">>
  /\ responses = <<Response(500, "Internal server error")>>

\* the five checks of validateKindleRequest, each taken on its own
CheckFails(k, json) ==
  CASE k = 1 -> json.kind \notin {"object", "array"}
    [] k = 2 -> json.url.type = "absent" \/ json.kindleEmail.type = "absent"
    [] k = 3 -> \/ json.url.type # "string"
                \/ json.kindleEmail.type # "string"
                \/ json.fromEmail.type \notin {"absent", "string"}
                \/ json.subject.type \notin {"absent", "string"}
    [] k = 4 -> json.url.type # "string" \/ ~UrlParses(json.url.v)
    [] k = 5 -> json.kindleEmail.type # "string" \/ ~emailRegex(json.kindleEmail.v)

CHECK_MESSAGES ==
  <<"Invalid request format", "Missing required fields: url, kindleEmail",
    "Invalid request format", "Invalid URL format", "Invalid email format">>

FailingChecks(json) == { k \in 1..5 : CheckFails(k, json) }

\* C24: for a POST with a readable body, the response is a 400 exactly when one of
\* the five checks (object, required fields, field types, URL format, email format)
\* fails, and it carries the message of the first of them that fails; with a
\* malformed URL and a malformed email that is 'Invalid URL format'.
C24_FirstFailingCheck ==
  (Responded /\ request.method = "POST" /\ request.json.kind # "unreadable") =>
    LET failing == FailingChecks(request.json)
    IN IF failing = {}
       THEN TheResponse.status # 400
       ELSE TheResponse =
              Response(400, CHECK_MESSAGES[CHOOSE k \in failing : \A m \in failing : k <= m])

\* C24 witness: the URL and the email are both malformed strings
C24_Witness ==
  /\ Responded
  /\ request.method = "POST"
  /\ request.json.url = StringValue(<<"x">>)
  /\ request.json.kindleEmail = StringValue(<<"a", "@", "a">>)
  /\ FailingChecks(request.json) = {4, 5}
  /\ responses = <<Response(400, "Invalid URL format")>>

\* C26: the steps a request goes through are always a beginning of: read the body,
\* fetch and extract, convert to EPUB, send, sent -- so the email is sent at most
\* once and only after the two earlier steps succeeded; a request answered with 405
\* or 400 has started no fetch, no conversion and no email; no step is started
\* after the response.
C26_PipelineOrder ==
  /\ [](/\ IsPrefix(effects, PIPELINE)
        /\ (Responded /\ TheResponse.status \in {400, 405}) =>
             Range(effects) \subseteq {"json"})
  /\ [][responses # <<>> => effects' = effects]_vars

\* C26 witness: a request carried out to the end
C26_Witness ==
  /\ Responded
  /\ effects = PIPELINE
  /\ responses = <<Response(200, "")>>
  /\ body = request.json

\* ---- vocabulary of the claim about the title prefix
\* the elements of the noise-pruned document that title selector i matches
TitleMatches(doc, i) ==
  { n \in Pruned(doc) :
      /\ KINDS[doc.kind[n]].tag = "h1"
      /\ IF i = 5 THEN KINDS[doc.kind[n]].classes \cap TITLE_SUBSTRING_CLASSES # {}
         ELSE <<"title", "entry-title", "post-title", "article-title">>[i]
                \in KINDS[doc.kind[n]].classes }

\* findContentBySelectors has returned for a document with a container
ContainerFound ==
  hasDocument /\ pc \in {"ifContentOpt", "return", "done"} /\ SomeSelectorMatches(document)

\* the trimmed text of heading h of the noise-pruned document
HeadingText(doc, h) == Trim(TextContent(doc, Noise(doc), h))

TitlePrefix(doc, h) == <<"<h1>">> \o HeadingText(doc, h) \o <<"</h1>">>

\* C25 as stated: the first title selector that matches anything decides with its
\* first element: the prefix is there exactly when that element precedes the
\* container and has text, and the text of the prefix is not in the markup of
\* the container again.
C25_FirstTitleElementDecides ==
  ContainerFound =>
    LET c == Container(document)
        inner == MarkupOf(document, c)
        hits == { i \in 1..5 : TitleMatches(document, i) # {} }
        h == IF hits = {} THEN 0 ELSE SeqMin(TitleMatches(document, SeqMin(hits)))
    IN IF h # 0 /\ h < c /\ HeadingText(document, h) # <<>>
       THEN /\ contentOpt.v = TitlePrefix(document, h) \o inner
            /\ BodyTextIn(HeadingText(document, h)) \cap BodyTextIn(inner) = {}
       ELSE contentOpt.v = inner

\* C25 amended: going through the title selectors in order and taking for each its
\* first element in the noise-pruned document, the first of these elements that
\* precedes the container decides: the content is prefixed with '<h1>text</h1>'
\* exactly when that element has non-empty text; elements inside or after the
\* container are passed over, also when a later selector then finds a heading
\* before the container.  The prefix repeats no text of the container unless the
\* heading encloses the container.
C25_FirstPrecedingTitleDecides ==
  ContainerFound =>
    LET c == Container(document)
        inner == MarkupOf(document, c)
        before == { i \in 1..5 : \E n \in TitleMatches(document, i) :
                                    n = SeqMin(TitleMatches(document, i)) /\ n < c }
        h == IF before = {} THEN 0 ELSE SeqMin(TitleMatches(document, SeqMin(before)))
    IN IF h # 0 /\ HeadingText(document, h) # <<>>
       THEN /\ contentOpt.v = TitlePrefix(document, h) \o inner
            /\ h \notin Ancestors(document, c) =>
                 BodyTextIn(HeadingText(document, h)) \cap BodyTextIn(inner) = {}
       ELSE contentOpt.v = inner

\* C25 witness: the h1.title lies inside the container, the h1.entry-title in front
\* of it, and the text of the latter is the prefix
C25_Witness ==
  /\ Returned
  /\ via = "selector"
  /\ document.kind = <<"h1entry", "article", "h1title">>
  /\ document.parent = <<0, 0, 2>>
  /\ result.content =
       <<"<h1>", "1", "1", "</h1>", "<h1 class=\"title\">", "3", "3", "</h1>">>

\* ---- vocabulary of the claim about the scored variant
\* number of <p> and heading start tags in a section
TagCount(section) == Count(section, {"<p>", "<h2>"})

\* C27: the section chosen is the first, in the order the sections were found, of
\* those with the maximal score, and of two sections with the same text the one
\* with more <p> or heading tags has the strictly higher score.
C27_MaxScoreAndDensity ==
  pc = "selectBestContentSectionDone" =>
    /\ \E i \in DOMAIN sections :
         /\ bestSection = sections[i]
         /\ \A j \in DOMAIN sections :
              scoreSectionContent(sections[j]) <= scoreSectionContent(sections[i])
         /\ \A j \in 1..(i - 1) :
              scoreSectionContent(sections[j]) < scoreSectionContent(sections[i])
    /\ \A i, j \in DOMAIN sections :
         (/\ regexCleanText(sections[i]) = regexCleanText(sections[j])
          /\ TagCount(sections[i]) > TagCount(sections[j])) =>
           scoreSectionContent(sections[i]) > scoreSectionContent(sections[j])

\* ---- vocabulary of the claim about the order of reading and pruning
\* the title extractTitle finds in the document as it was parsed
UnprunedTitle(doc) ==
  LET h == FirstH1(doc)
  IN IF doc.title.has /\ NonBlank(doc.title.text)
     THEN cleanText(doc.title.text)
     ELSE IF h # 0 /\ NonBlank(TextContent(doc, {}, h))
          THEN cleanText(TextContent(doc, {}, h))
          ELSE <<>>

\* C28: no element is detached before title and metadata have been read, and a
\* step that detaches elements changes neither; so the title and the author and
\* date returned are those of the document as parsed, also when the <h1> the
\* title comes from lies inside a <nav> and its text is kept out of content.
C28_ReadBeforePruning ==
  /\ [][removed' # removed =>
          /\ pc \notin {"extractContent", "createDocument", "extractTitle", "extractMetadata"}
          /\ title' = title
          /\ metadata' = metadata]_vars
  /\ [](Returned =>
          /\ result.title = UnprunedTitle(document)
          /\ result.author = MetaExpected(document, AUTHOR_SELECTORS)
          /\ result.publishedDate = MetaExpected(document, DATE_SELECTORS))

\* C28 witness: the title is the text of an <h1> inside a <nav>; the <nav> was
\* detached and the text is not in content; the author was read as well
C28_Witness ==
  /\ Returned
  /\ ~document.title.has
  /\ FirstH1(document) # 0
  /\ \E a \in Ancestors(document, FirstH1(document)) : KINDS[document.kind[a]].tag = "nav"
  /\ FirstH1(document) \in removed
  /\ result.title = <<Marker(FirstH1(document)), Marker(FirstH1(document))>>
  /\ Marker(FirstH1(document)) \notin Range(result.content)
  /\ result.author = Some(<<"B">>)

\* ---- vocabulary of the claim about the content script
\* the elements of the page that match a selector of ELEMENTS_TO_REMOVE themselves
PageNoise(doc) ==
  { n \in Nodes : \/ KINDS[doc.kind[n]].tag \in {"script", "style", "nav", "header", "footer", "aside"}
                  \/ KINDS[doc.kind[n]].classes \cap
                       {"ad", "advertisement", "sidebar", "navigation", "menu", "social", "share"} # {} }

\* the elements of the live page with an author class, in document order
Bylines(doc) == { n \in Nodes : "author" \in KINDS[doc.kind[n]].classes }

\* C29: no step of extractPageContent detaches an element of the live document or
\* changes the page; what it detaches, it detaches from the clone; title, url and
\* author of the result are those of the live, unpruned document.
C29_LiveDocumentUntouched ==
  /\ [][liveRemoved' = liveRemoved /\ page' = page]_vars
  /\ [](pc = "extractPageContentDone" =>
          /\ liveRemoved = {}
          /\ PageNoise(page.doc) \subseteq cloneRemoved
          /\ pageContent.title = page.doc.title.text
          /\ pageContent.url = page.url
          /\ pageContent.author =
               IF Bylines(page.doc) = {} THEN Undefined
               ELSE Some(TextContent(page.doc, {}, SeqMin(Bylines(page.doc)))))

\* C29 witness: the byline lies inside a <nav>, which was detached from the clone,
\* and is returned as author all the same
C29_Witness ==
  /\ pc = "extractPageContentDone"
  /\ \E n \in Bylines(page.doc) :
       /\ n \in cloneRemoved
       /\ KINDS[page.doc.kind[page.doc.parent[n]]].tag = "nav"
       /\ pageContent.author = Some(<<Marker(n), Marker(n)>>)
       /\ Marker(n) \notin Range(pageContent.content)
  /\ liveRemoved = {}

\* C30: in a popup session the content of the page is extracted at most once;
\* once cachedPageContent is set no step changes it; a step without a successful
\* extraction, a failed extraction among them, leaves it as it is; and the content
\* a preview or a send holds is the cached one.
C30_ExtractedAtMostOnce ==
  /\ [](extractions <= 1)
  /\ [][cachedPageContent # Null => cachedPageContent' = cachedPageContent]_vars
  /\ [][extractions' = extractions => cachedPageContent' = cachedPageContent]_vars
  /\ [](\A h \in HandlerIds :
          handlers[h].pageContent # Null => handlers[h].pageContent = cachedPageContent)
====
